---- MODULE Spec2Model ----
(***************************************************************************)
(* A model of the Lean pretty printer, src/frontends/lean/pp.cpp           *)
(* (class pretty_fn): name purification, the recursive printer pp and its  *)
(* per-construct renderers, notation matching and rendering, coercion and  *)
(* implicit-argument elision, binder grouping and let flattening.          *)
(*                                                                         *)
(* Encoding.  A hierarchical name is <<base, digits>>: a string without    *)
(* trailing digits and the decimal digits that follow it, so that          *)
(* name::append_after(i) is string concatenation of the digits of i.       *)
(* Levels and expressions are tag-first tuples.  A format is the sequence  *)
(* of the names (tokens) it prints; layout (nest, group, line) is the      *)
(* layout engine's and is dropped.                                         *)
(***************************************************************************)
EXTENDS Integers, Sequences, FiniteSets, TLC

VARIABLES
    m_options,            \* identity of the option set last applied
    m_indent, m_max_depth, m_max_steps, m_implict, m_unicode, m_coercion,
    m_notation, m_universes, m_full_names, m_private_names, m_metavar_args,
    m_beta,               \* the cached option fields
    m_depth, m_num_steps, \* the counters of pp
    m_next_meta_idx,      \* next index mk_metavar_name hands out
    m_purify_meta_table,  \* metavariable identity -> display name
    m_purify_local_table, \* local identity -> display name
    m_purify_used_locals, \* display names issued to locals
    inp,                  \* the argument of the operation applied last
    out,                  \* what that operation returned
    pc                    \* "ready": argument drawn, "done": operation applied

optvars == <<m_options, m_indent, m_max_depth, m_max_steps, m_implict, m_unicode,
             m_coercion, m_notation, m_universes, m_full_names, m_private_names,
             m_metavar_args, m_beta>>
ctrvars == <<m_depth, m_num_steps>>
purvars == <<m_next_meta_idx, m_purify_meta_table, m_purify_local_table,
             m_purify_used_locals>>
vars == <<optvars, ctrvars, purvars, inp, out, pc>>

None == <<"none">>
Some(x) == <<"some", x>>
IsSome(o) == o[1] = "some"
Get(o) == o[2]

Max(a, b) == IF a >= b THEN a ELSE b

\* the counters of an instance at depth d after s steps: m_depth, m_num_steps
\* and, for the statements about them, the deepest m_depth so far
counters(d, s) == [depth |-> d, steps |-> s, deepest |-> d]
Range(s) == { s[i] : i \in 1..Len(s) }

(***************************************************************************)
(* Names.                                                                  *)
(***************************************************************************)
RECURSIVE Digits(_)
Digits(i) == IF i < 10 THEN <<i>> ELSE Digits(i \div 10) \o <<i % 10>>

Nm(s) == <<s, <<>>>>
append_after(n, i) == <<n[1], n[2] \o Digits(i)>>

(***************************************************************************)
(* Universe levels:  <<"zero">>, <<"succ", l>>, <<"max", l1, l2>>,         *)
(* <<"imax", l1, l2>>, <<"param", n>>, <<"lmeta", n>>, <<"lplaceholder">>. *)
(***************************************************************************)
mk_succ(l) == <<"succ", l>>
mk_meta_univ(n) == <<"lmeta", n>>
is_succ(l) == l[1] = "succ"
succ_of(l) == l[2]
is_level_placeholder(l) == l[1] = "lplaceholder"
is_level_meta(l) == l[1] = "lmeta"
meta_id(l) == l[2]
is_max(l) == l[1] = "max"
is_imax(l) == l[1] = "imax"

RECURSIVE level_has_meta(_)
level_has_meta(l) ==
    CASE l[1] = "lmeta" -> TRUE
      [] l[1] = "succ" -> level_has_meta(l[2])
      [] l[1] \in {"max", "imax"} -> level_has_meta(l[2]) \/ level_has_meta(l[3])
      [] OTHER -> FALSE

(***************************************************************************)
(* Expressions:                                                            *)
(*   <<"var", i>>  <<"sort", l>>  <<"const", n, ls>>  <<"meta", n, ty>>    *)
(*   <<"local", n, pp_n, ty, bi>>  <<"app", f, a>>                         *)
(*   <<"lambda", n, dom, body, bi>>  <<"pi", n, dom, body, bi>>            *)
(*   <<"macro", def, args>>: def is "explicit", "let" (args n, v, b),      *)
(*   "annot:have", "annot:show", "typed_expr", "let_value", "placeholder", *)
(*   "num" or an opaque macro name.                                        *)
(* A binder_info is one of the strings of BinderInfos.                     *)
(***************************************************************************)
BinderInfos == {"default", "implicit", "strict_implicit", "inst_implicit", "contextual"}

mk_var(i) == <<"var", i>>
mk_sort(l) == <<"sort", l>>
mk_constant(n, ls) == <<"const", n, ls>>
mk_metavar(n, ty) == <<"meta", n, ty>>
mk_local(n, ppn, ty, bi) == <<"local", n, ppn, ty, bi>>
mk_app(f, a) == <<"app", f, a>>
mk_lambda(n, d, b, bi) == <<"lambda", n, d, b, bi>>
mk_pi(n, d, b, bi) == <<"pi", n, d, b, bi>>
mk_macro(d, args) == <<"macro", d, args>>

is_var(e) == e[1] = "var"
is_sort(e) == e[1] = "sort"
is_constant(e) == e[1] = "const"
is_metavar(e) == e[1] = "meta"
is_local(e) == e[1] = "local"
is_app(e) == e[1] = "app"
is_lambda(e) == e[1] = "lambda"
is_pi(e) == e[1] = "pi"
is_binding(e) == is_lambda(e) \/ is_pi(e)
is_macro(e) == e[1] = "macro"

var_idx(e) == e[2]
sort_level(e) == e[2]
const_name(e) == e[2]
const_levels(e) == e[3]
mlocal_name(e) == e[2]
mlocal_type(e) == IF is_local(e) THEN e[4] ELSE e[3]
local_pp_name(e) == e[3]
local_info(e) == e[5]
app_fn(e) == e[2]
app_arg(e) == e[3]
binding_name(e) == e[2]
binding_domain(e) == e[3]
binding_body(e) == e[4]
binding_info(e) == e[5]
macro_def(e) == e[2]
macro_args(e) == e[3]
\* the children of a macro that are expressions (a let macro carries its name first)
macro_exprs(e) == IF macro_def(e) = "let" THEN Tail(macro_args(e)) ELSE macro_args(e)
update_macro(e, es) ==
    IF macro_def(e) = "let" THEN mk_macro("let", <<Head(macro_args(e))>> \o es)
    ELSE mk_macro(macro_def(e), es)

Prop == mk_sort(<<"zero">>)

RECURSIVE get_app_fn(_)
get_app_fn(e) == IF is_app(e) THEN get_app_fn(app_fn(e)) ELSE e

RECURSIVE get_app_args(_)
get_app_args(e) == IF is_app(e) THEN Append(get_app_args(app_fn(e)), app_arg(e)) ELSE <<>>

RECURSIVE has_expr_metavar(_)
has_expr_metavar(e) ==
    CASE is_metavar(e) -> TRUE
      [] is_local(e) -> has_expr_metavar(mlocal_type(e))
      [] is_app(e) -> has_expr_metavar(app_fn(e)) \/ has_expr_metavar(app_arg(e))
      [] is_binding(e) -> has_expr_metavar(binding_domain(e)) \/ has_expr_metavar(binding_body(e))
      [] is_macro(e) -> \E i \in 1..Len(macro_exprs(e)) : has_expr_metavar(macro_exprs(e)[i])
      [] OTHER -> FALSE

RECURSIVE has_local(_)
has_local(e) ==
    CASE is_local(e) -> TRUE
      [] is_metavar(e) -> has_local(mlocal_type(e))
      [] is_app(e) -> has_local(app_fn(e)) \/ has_local(app_arg(e))
      [] is_binding(e) -> has_local(binding_domain(e)) \/ has_local(binding_body(e))
      [] is_macro(e) -> \E i \in 1..Len(macro_exprs(e)) : has_local(macro_exprs(e)[i])
      [] OTHER -> FALSE

RECURSIVE has_univ_metavar(_)
has_univ_metavar(e) ==
    CASE is_sort(e) -> level_has_meta(sort_level(e))
      [] is_constant(e) -> \E i \in 1..Len(const_levels(e)) : level_has_meta(const_levels(e)[i])
      [] is_metavar(e) \/ is_local(e) -> has_univ_metavar(mlocal_type(e))
      [] is_app(e) -> has_univ_metavar(app_fn(e)) \/ has_univ_metavar(app_arg(e))
      [] is_binding(e) -> has_univ_metavar(binding_domain(e)) \/ has_univ_metavar(binding_body(e))
      [] is_macro(e) -> \E i \in 1..Len(macro_exprs(e)) : has_univ_metavar(macro_exprs(e)[i])
      [] OTHER -> FALSE

(***************************************************************************)
(* Name purification.  The tables and the counter are threaded as a record *)
(* P = [mt, lt, used, idx] (m_purify_meta_table, m_purify_local_table,     *)
(* m_purify_used_locals, m_next_meta_idx); an operation returns its value  *)
(* together with the tables it leaves.                                     *)
(***************************************************************************)
m_meta_prefix == Nm("M")

PurifyState == [mt |-> m_purify_meta_table, lt |-> m_purify_local_table,
                used |-> m_purify_used_locals, idx |-> m_next_meta_idx]

mk_metavar_name(m, P) ==
    IF m \in DOMAIN P.mt
    THEN [r |-> P.mt[m], P |-> P]
    ELSE LET new_m == append_after(m_meta_prefix, P.idx)
         IN  [r |-> new_m,
              P |-> [P EXCEPT !.idx = P.idx + 1, !.mt = (m :> new_m) @@ P.mt]]

RECURSIVE mk_local_name_loop(_, _, _, _)
mk_local_name_loop(suggested, r, i, used) ==
    IF r \in used
    THEN mk_local_name_loop(suggested, append_after(suggested, i), i + 1, used)
    ELSE r

\* variant: the suggested name is issued without consulting the issued names
mk_local_name_suggested(n, suggested, P) ==
    IF n \in DOMAIN P.lt
    THEN [r |-> P.lt[n], P |-> P]
    ELSE [r |-> suggested,
          P |-> [P EXCEPT !.used = P.used \cup {suggested}, !.lt = (n :> suggested) @@ P.lt]]

\* variant: a name is issued without consulting the local table
mk_local_name_fresh(n, suggested, P) ==
    LET r == mk_local_name_loop(suggested, suggested, 1, P.used)
    IN  [r |-> r,
         P |-> [P EXCEPT !.used = P.used \cup {r}, !.lt = (n :> r) @@ P.lt]]

mk_local_name(n, suggested, P) ==
    IF n \in DOMAIN P.lt
    THEN [r |-> P.lt[n], P |-> P]
    ELSE LET r == mk_local_name_loop(suggested, suggested, 1, P.used)
         IN  [r |-> r,
              P |-> [P EXCEPT !.used = P.used \cup {r}, !.lt = (n :> r) @@ P.lt]]

RECURSIVE purify_level_replace(_, _)
purify_level_replace(l, P) ==
    IF ~level_has_meta(l) THEN [l |-> l, P |-> P]
    ELSE IF is_level_meta(l)
    THEN LET m == mk_metavar_name(meta_id(l), P)
         IN  [l |-> mk_meta_univ(m.r), P |-> m.P]
    ELSE IF is_succ(l)
    THEN LET a == purify_level_replace(succ_of(l), P)
         IN  [l |-> mk_succ(a.l), P |-> a.P]
    ELSE LET a == purify_level_replace(l[2], P)
             b == purify_level_replace(l[3], a.P)
         IN  [l |-> <<l[1], a.l, b.l>>, P |-> b.P]

purify_level(l, P) ==
    IF ~m_universes \/ ~level_has_meta(l)
    THEN [l |-> l, P |-> P]
    ELSE purify_level_replace(l, P)

RECURSIVE purify_levels(_, _)
purify_levels(ls, P) ==
    IF ls = <<>> THEN [ls |-> <<>>, P |-> P]
    ELSE LET a == purify_level(Head(ls), P)
             b == purify_levels(Tail(ls), a.P)
         IN  [ls |-> <<a.l>> \o b.ls, P |-> b.P]

purify_nothing_to_do(e) ==
    ~has_expr_metavar(e) /\ ~has_local(e) /\ (~m_universes \/ ~has_univ_metavar(e))

RECURSIVE purify_replace(_, _)
RECURSIVE purify_replace_args(_, _)
purify_replace_args(es, P) ==
    IF es = <<>> THEN [es |-> <<>>, P |-> P]
    ELSE LET a == purify_replace(Head(es), P)
             b == purify_replace_args(Tail(es), a.P)
         IN  [es |-> <<a.e>> \o b.es, P |-> b.P]

purify_replace(e, P) ==
    IF purify_nothing_to_do(e) THEN [e |-> e, P |-> P]
    ELSE IF is_metavar(e)
    THEN LET m == mk_metavar_name(mlocal_name(e), P)
         IN  [e |-> mk_metavar(m.r, mlocal_type(e)), P |-> m.P]
    ELSE IF is_local(e)
    THEN LET m == mk_local_name(mlocal_name(e), local_pp_name(e), P)
         IN  [e |-> mk_local(mlocal_name(e), m.r, mlocal_type(e), local_info(e)), P |-> m.P]
    ELSE IF is_constant(e)
    THEN LET a == purify_levels(const_levels(e), P)
         IN  [e |-> mk_constant(const_name(e), a.ls), P |-> a.P]
    ELSE IF is_sort(e)
    THEN LET a == purify_level(sort_level(e), P)
         IN  [e |-> mk_sort(a.l), P |-> a.P]
    ELSE IF is_app(e)
    THEN LET a == purify_replace(app_fn(e), P)
             b == purify_replace(app_arg(e), a.P)
         IN  [e |-> mk_app(a.e, b.e), P |-> b.P]
    ELSE IF is_binding(e)
    THEN LET a == purify_replace(binding_domain(e), P)
             b == purify_replace(binding_body(e), a.P)
         IN  [e |-> <<e[1], binding_name(e), a.e, b.e, binding_info(e)>>, P |-> b.P]
    ELSE LET a == purify_replace_args(macro_exprs(e), P)
         IN  [e |-> update_macro(e, a.es), P |-> a.P]

purify(e, P) ==
    IF purify_nothing_to_do(e) THEN [e |-> e, P |-> P] ELSE purify_replace(e, P)

(***************************************************************************)
(* Options.  An option set is a record: its identity `id` (what is_eqp     *)
(* compares) and the value of each pp.* option.                            *)
(***************************************************************************)
is_eqp(o1, o2) == o1.id = o2.id

get_pp_indent(o) == o.indent
get_pp_max_depth(o) == o.max_depth
get_pp_max_steps(o) == o.max_steps
get_pp_implicit(o) == o.implicit
get_pp_unicode(o) == o.unicode
get_pp_coercions(o) == o.coercions
get_pp_notation(o) == o.notation
get_pp_universes(o) == o.universes
get_pp_full_names(o) == o.full_names
get_pp_private_names(o) == o.private_names
get_pp_metavar_args(o) == o.metavar_args
get_pp_beta(o) == o.beta

\* variant: the beta option is not read again
set_options_core_stale(o) ==
    /\ m_options' = o
    /\ m_indent' = get_pp_indent(o)
    /\ m_max_depth' = get_pp_max_depth(o)
    /\ m_max_steps' = get_pp_max_steps(o)
    /\ m_implict' = get_pp_implicit(o)
    /\ m_unicode' = get_pp_unicode(o)
    /\ m_coercion' = get_pp_coercions(o)
    /\ m_notation' = get_pp_notation(o)
    /\ m_universes' = get_pp_universes(o)
    /\ m_full_names' = get_pp_full_names(o)
    /\ m_private_names' = get_pp_private_names(o)
    /\ m_metavar_args' = get_pp_metavar_args(o)
    /\ m_beta' = m_beta

set_options_core(o) ==
    /\ m_options' = o
    /\ m_indent' = get_pp_indent(o)
    /\ m_max_depth' = get_pp_max_depth(o)
    /\ m_max_steps' = get_pp_max_steps(o)
    /\ m_implict' = get_pp_implicit(o)
    /\ m_unicode' = get_pp_unicode(o)
    /\ m_coercion' = get_pp_coercions(o)
    /\ m_notation' = get_pp_notation(o)
    /\ m_universes' = get_pp_universes(o)
    /\ m_full_names' = get_pp_full_names(o)
    /\ m_private_names' = get_pp_private_names(o)
    /\ m_metavar_args' = get_pp_metavar_args(o)
    /\ m_beta' = get_pp_beta(o)

set_options(o) ==
    IF is_eqp(o, m_options) THEN UNCHANGED optvars ELSE set_options_core(o)

(***************************************************************************)
(* pretty_fn::pretty_fn(env, o): the options are read, the prefix is "M",  *)
(* the counter is 1 and the tables are empty.  m_depth and m_num_steps are *)
(* not initialised by the constructor: any value of UninitValues.          *)
(***************************************************************************)
UninitValues == {0, 1}

pretty_fn(o) ==
    /\ m_options = o
    /\ m_indent = get_pp_indent(o)
    /\ m_max_depth = get_pp_max_depth(o)
    /\ m_max_steps = get_pp_max_steps(o)
    /\ m_implict = get_pp_implicit(o)
    /\ m_unicode = get_pp_unicode(o)
    /\ m_coercion = get_pp_coercions(o)
    /\ m_notation = get_pp_notation(o)
    /\ m_universes = get_pp_universes(o)
    /\ m_full_names = get_pp_full_names(o)
    /\ m_private_names = get_pp_private_names(o)
    /\ m_metavar_args = get_pp_metavar_args(o)
    /\ m_beta = get_pp_beta(o)
    /\ m_next_meta_idx = 1
    /\ m_purify_meta_table = <<>>
    /\ m_purify_local_table = <<>>
    /\ m_purify_used_locals = {}
    /\ m_depth \in UninitValues
    /\ m_num_steps \in UninitValues

SetPurifyState(P) ==
    /\ m_purify_meta_table' = P.mt
    /\ m_purify_local_table' = P.lt
    /\ m_purify_used_locals' = P.used
    /\ m_next_meta_idx' = P.idx

DefaultOptions ==
    [id |-> 0, indent |-> 2, max_depth |-> 3, max_steps |-> 8, implicit |-> FALSE,
     unicode |-> TRUE, coercions |-> FALSE, notation |-> TRUE, universes |-> FALSE,
     full_names |-> FALSE, private_names |-> FALSE, metavar_args |-> FALSE,
     beta |-> FALSE]

(***************************************************************************)
(* Kernel and library operations pp.cpp calls (kernel/free_vars.h,         *)
(* abstract.h, instantiate.h, library/print.h, annotation.h, let.h, ...).  *)
(***************************************************************************)
RECURSIVE get_free_var_range(_)
RECURSIVE get_free_var_range_args(_)
get_free_var_range_args(es) ==
    IF es = <<>> THEN 0
    ELSE Max(get_free_var_range(Head(es)), get_free_var_range_args(Tail(es)))

get_free_var_range(e) ==
    CASE is_var(e) -> var_idx(e) + 1
      [] is_metavar(e) \/ is_local(e) -> get_free_var_range(mlocal_type(e))
      [] is_app(e) -> Max(get_free_var_range(app_fn(e)), get_free_var_range(app_arg(e)))
      [] is_binding(e) ->
            Max(get_free_var_range(binding_domain(e)),
                Max(get_free_var_range(binding_body(e)) - 1, 0))
      [] is_macro(e) -> get_free_var_range_args(macro_exprs(e))
      [] OTHER -> 0

closed(e) == get_free_var_range(e) = 0

RECURSIVE has_free_var(_, _)
has_free_var(e, i) ==
    CASE is_var(e) -> var_idx(e) = i
      [] is_metavar(e) \/ is_local(e) -> has_free_var(mlocal_type(e), i)
      [] is_app(e) -> has_free_var(app_fn(e), i) \/ has_free_var(app_arg(e), i)
      [] is_binding(e) -> has_free_var(binding_domain(e), i) \/ has_free_var(binding_body(e), i + 1)
      [] is_macro(e) -> \E k \in 1..Len(macro_exprs(e)) : has_free_var(macro_exprs(e)[k], i)
      [] OTHER -> FALSE

\* lift_free_vars(e, s, d): the free variables >= s are raised by d
RECURSIVE lift_free_vars_core(_, _, _)
RECURSIVE lift_free_vars_args(_, _, _)
lift_free_vars_args(es, s, d) ==
    IF es = <<>> THEN <<>>
    ELSE <<lift_free_vars_core(Head(es), s, d)>> \o lift_free_vars_args(Tail(es), s, d)

lift_free_vars_core(e, s, d) ==
    CASE is_var(e) -> IF var_idx(e) >= s THEN mk_var(var_idx(e) + d) ELSE e
      [] is_app(e) -> mk_app(lift_free_vars_core(app_fn(e), s, d), lift_free_vars_core(app_arg(e), s, d))
      [] is_binding(e) ->
            <<e[1], binding_name(e), lift_free_vars_core(binding_domain(e), s, d),
              lift_free_vars_core(binding_body(e), s + 1, d), binding_info(e)>>
      [] is_macro(e) ->
            update_macro(e, lift_free_vars_args(macro_exprs(e), s, d))
      [] OTHER -> e

lift_free_vars(e, d) == lift_free_vars_core(e, 0, d)

\* instantiate(e, s): variable 0 of e becomes s, the others are lowered by one
RECURSIVE instantiate_core(_, _, _)
RECURSIVE instantiate_args(_, _, _)
instantiate_args(es, s, offset) ==
    IF es = <<>> THEN <<>>
    ELSE <<instantiate_core(Head(es), s, offset)>> \o instantiate_args(Tail(es), s, offset)

instantiate_core(e, s, offset) ==
    CASE is_var(e) ->
            IF var_idx(e) = offset THEN lift_free_vars(s, offset)
            ELSE IF var_idx(e) > offset THEN mk_var(var_idx(e) - 1) ELSE e
      [] is_app(e) -> mk_app(instantiate_core(app_fn(e), s, offset), instantiate_core(app_arg(e), s, offset))
      [] is_binding(e) ->
            <<e[1], binding_name(e), instantiate_core(binding_domain(e), s, offset),
              instantiate_core(binding_body(e), s, offset + 1), binding_info(e)>>
      [] is_macro(e) ->
            update_macro(e, instantiate_args(macro_exprs(e), s, offset))
      [] OTHER -> e

instantiate(e, s) == instantiate_core(e, s, 0)

\* abstract(e, s): every closed subterm of e equal to s becomes the variable
\* bound at that place
RECURSIVE abstract_core(_, _, _)
RECURSIVE abstract_args(_, _, _)
abstract_args(es, s, offset) ==
    IF es = <<>> THEN <<>>
    ELSE <<abstract_core(Head(es), s, offset)>> \o abstract_args(Tail(es), s, offset)

abstract_core(e, s, offset) ==
    IF closed(e) /\ e = s THEN mk_var(offset)
    ELSE CASE is_app(e) -> mk_app(abstract_core(app_fn(e), s, offset), abstract_core(app_arg(e), s, offset))
           [] is_binding(e) ->
                 <<e[1], binding_name(e), abstract_core(binding_domain(e), s, offset),
                   abstract_core(binding_body(e), s, offset + 1), binding_info(e)>>
           [] is_metavar(e) -> mk_metavar(mlocal_name(e), abstract_core(mlocal_type(e), s, offset))
           [] is_local(e) ->
                 mk_local(mlocal_name(e), local_pp_name(e),
                          abstract_core(mlocal_type(e), s, offset), local_info(e))
           [] is_macro(e) ->
                 update_macro(e, abstract_args(macro_exprs(e), s, offset))
           [] OTHER -> e

abstract(e, s) == abstract_core(e, s, 0)

is_arrow(e) == is_pi(e) /\ ~has_free_var(binding_body(e), 0)

\* library/print: a constant named n, or a local whose name or display name is n
RECURSIVE is_used_name(_, _)
is_used_name(t, n) ==
    CASE is_constant(t) -> const_name(t) = n
      [] is_local(t) -> mlocal_name(t) = n \/ local_pp_name(t) = n
      [] is_app(t) -> is_used_name(app_fn(t), n) \/ is_used_name(app_arg(t), n)
      [] is_binding(t) -> is_used_name(binding_domain(t), n) \/ is_used_name(binding_body(t), n)
      [] is_macro(t) -> \E k \in 1..Len(macro_exprs(t)) : is_used_name(macro_exprs(t)[k], n)
      [] OTHER -> FALSE

RECURSIVE pick_unused_name_loop(_, _, _, _)
pick_unused_name_loop(t, s, r, i) ==
    IF is_used_name(t, r) THEN pick_unused_name_loop(t, s, append_after(s, i), i + 1) ELSE r

pick_unused_name(t, s) == pick_unused_name_loop(t, s, s, 1)

\* binding_body_fresh(b, preserve_type): <<body instantiated with a fresh local, the local>>
binding_body_fresh(b) ==
    LET n == pick_unused_name(binding_body(b), binding_name(b))
        c == mk_local(n, n, binding_domain(b), binding_info(b))
    IN  <<instantiate(binding_body(b), c), c>>

\* annotations and macros of the library
mk_annotation(k, e) == mk_macro(k, <<e>>)
is_annotation(e, k) == is_macro(e) /\ macro_def(e) = k
get_annotation_arg(e) == macro_args(e)[1]
is_explicit(e) == is_annotation(e, "explicit")
get_explicit_arg(e) == get_annotation_arg(e)
is_have_annotation(e) == is_annotation(e, "have")
is_show_annotation(e) == is_annotation(e, "show")
is_typed_expr(e) == is_annotation(e, "typed_expr")
get_typed_expr_expr(e) == get_annotation_arg(e)
is_let_value(e) == is_annotation(e, "let_value")
get_let_value_expr(e) == get_annotation_arg(e)
mk_let(n, v, b) == mk_macro("let", <<n, v, b>>)
is_let(e) == is_macro(e) /\ macro_def(e) = "let"
get_let_var_name(e) == macro_args(e)[1]
get_let_value(e) == macro_args(e)[2]
get_let_body(e) == macro_args(e)[3]
is_placeholder(e) == is_constant(e) /\ const_name(e) = Nm("_")
is_meta(e) == is_metavar(get_app_fn(e))
is_explicit_info(bi) == bi \in {"default", "contextual"}

(***************************************************************************)
(* The environment m_env, the token table and the type checker m_tc: the   *)
(* external collaborators, fixed for a renderer instance.  Failure of the  *)
(* type checker (an exception in the source) is the value Fail.            *)
(***************************************************************************)
Fail == <<"fail">>
Cn(s) == mk_constant(Nm(s), <<>>)
TyA == Cn("A")
Arrow(d, r) == mk_pi(Nm("a"), d, r, "default")
ImpArrow(d, r) == mk_pi(Nm("a"), d, r, "implicit")
TyB == Cn("B")

\* the declarations of the environment: constant name -> type
env_types ==
    (Nm("A") :> mk_sort(mk_succ(<<"zero">>))) @@ (Nm("B") :> mk_sort(mk_succ(<<"zero">>))) @@
    (Nm("P") :> Prop) @@
    (Nm("a") :> TyA) @@ (Nm("b") :> TyA) @@ (Nm("h") :> Cn("P")) @@
    (Nm("f") :> Arrow(TyA, Arrow(TyA, TyA))) @@
    (Nm("g") :> ImpArrow(TyA, Arrow(TyA, TyA))) @@
    (Nm("add") :> Arrow(TyA, Arrow(TyA, TyA))) @@
    (Nm("neg") :> Arrow(TyA, TyA)) @@
    (Nm("iadd") :> ImpArrow(TyA, Arrow(TyA, Arrow(TyA, TyA)))) @@
    (Nm("coe") :> Arrow(TyA, TyB)) @@
    (Nm("icoe") :> ImpArrow(TyA, Arrow(TyA, TyB))) @@
    (Nm("fcoe") :> Arrow(TyA, Arrow(TyA, TyB))) @@
    (Nm("coe1") :> Arrow(TyA, Arrow(TyA, TyB))) @@
    (Nm("coe2") :> Arrow(TyA, Arrow(TyA, Arrow(TyA, TyB)))) @@
    (Nm("sub") :> Arrow(TyA, Arrow(TyA, TyA))) @@
    (Nm("mul") :> Arrow(TyA, Arrow(TyA, TyA))) @@
    (Nm("ih") :> Arrow(TyA, Arrow(TyA, ImpArrow(TyA, TyA)))) @@
    (Nm("sum") :> Arrow(TyA, TyA)) @@
    (Nm("zero") :> TyA)

env_impredicative == TRUE

\* is_coercion(env, f): the number of arguments the coercion takes before the
\* coerced one (the second component of the pair the source reads)
env_coercions ==
    (Nm("coe") :> 0) @@ (Nm("icoe") :> 1) @@ (Nm("fcoe") :> 0) @@
    (Nm("coe1") :> 1) @@ (Nm("coe2") :> 2)

is_coercion(f) ==
    IF is_constant(f) /\ const_name(f) \in DOMAIN env_coercions
    THEN Some(env_coercions[const_name(f)]) ELSE None

env_namespaces == <<Nm("ns")>>
env_aliases == (Nm("full_b") :> Nm("b"))
env_hidden == (Nm("priv") :> Nm("user"))
is_expr_aliased(n) == IF n \in DOMAIN env_aliases THEN Some(env_aliases[n]) ELSE None
hidden_to_user_name(n) == IF n \in DOMAIN env_hidden THEN Some(env_hidden[n]) ELSE None

ensure_pi(t) == IF t # Fail /\ is_pi(t) THEN t ELSE Fail
whnf(t) == t

RECURSIVE infer(_)
infer(e) ==
    CASE is_constant(e) ->
            IF const_name(e) \in DOMAIN env_types THEN env_types[const_name(e)] ELSE Fail
      [] is_local(e) \/ is_metavar(e) -> mlocal_type(e)
      [] is_sort(e) -> mk_sort(mk_succ(sort_level(e)))
      [] is_app(e) ->
            LET t == ensure_pi(infer(app_fn(e)))
            IN  IF t = Fail THEN Fail ELSE instantiate(binding_body(t), app_arg(e))
      [] is_pi(e) -> mk_sort(mk_succ(<<"zero">>))
      [] OTHER -> Fail

tc_is_prop(e) == LET t == infer(e) IN IF t = Fail THEN Fail ELSE Some(t = Prop)

\* token table: token -> precedence
token_table ==
    (Nm("+") :> 65) @@ (Nm("-") :> 65) @@ (Nm("*") :> 70) @@ (Nm("!") :> 100) @@
    (Nm("^") :> 75)

get_precedence(tk) == IF tk \in DOMAIN token_table THEN Some(token_table[tk]) ELSE None

\* to_num(e): the numeral a term encodes, if any, as the token that prints it
mk_num(i) == mk_macro("num", << <<"", Digits(i)>> >>)
to_num(e) ==
    IF is_macro(e) /\ macro_def(e) = "num" THEN Some(macro_args(e)[1]) ELSE None

(***************************************************************************)
(* Formats and results.  A format is the sequence of tokens it prints; a   *)
(* result is a format with its left and right binding powers, together     *)
(* with the counters st = [depth, steps] (m_depth, m_num_steps) the        *)
(* rendering leaves.                                                       *)
(***************************************************************************)
max_bp == 1024
get_arrow_prec == 25

format(n) == <<n>>
tk(s) == <<Nm(s)>>
compose(f1, f2) == f1 \o f2
paren(f) == tk("(") \o f \o tk(")")

result1(fmt, st) == [lbp |-> max_bp, rbp |-> max_bp, fmt |-> fmt, st |-> st]
result2(bp, fmt, st) == [lbp |-> bp, rbp |-> bp, fmt |-> fmt, st |-> st]
result3(lbp, rbp, fmt, st) == [lbp |-> lbp, rbp |-> rbp, fmt |-> fmt, st |-> st]

g_ellipsis_n_fmt == tk("\\u2026")
g_ellipsis_fmt == tk("...")
g_placeholder_fmt == tk("_")
g_lambda_n_fmt == tk("\\u03BB")
g_lambda_fmt == tk("fun")
g_forall_n_fmt == tk("\\u2200")
g_forall_fmt == tk("forall")
g_pi_n_fmt == tk("\\u03A0")
g_pi_fmt == tk("Pi")
g_arrow_n_fmt == tk("\\u2192")
g_arrow_fmt == tk("->")
g_let_fmt == tk("let")
g_in_fmt == tk("in")
g_assign_fmt == tk(":=")
g_have_fmt == tk("have")
g_from_fmt == tk("from")
g_visible_fmt == tk("[visible]")
g_show_fmt == tk("show")
g_explicit_fmt == tk("@")
comma == tk(",")
colon == tk(":")

\* ::lean::pp(level): the tokens of a universe level
RECURSIVE pp_level(_)
pp_level(l) ==
    CASE l[1] = "zero" -> tk("0")
      [] l[1] = "succ" -> tk("succ") \o pp_level(l[2])
      [] l[1] \in {"max", "imax"} -> tk(l[1]) \o pp_level(l[2]) \o pp_level(l[3])
      [] l[1] = "param" -> format(l[2])
      [] l[1] = "lmeta" -> tk("?") \o format(l[2])
      [] OTHER -> tk("_")

(***************************************************************************)
(* Implicit arguments.                                                     *)
(***************************************************************************)
is_nonexplicit_info(bi) == bi \in {"implicit", "strict_implicit", "inst_implicit"}

\* variant: the function is asked for its binder even when implicit
\* arguments are shown
is_implicit_unguarded(f) ==
    IF ~closed(f) THEN FALSE
    ELSE LET t == ensure_pi(infer(f))
         IN  IF t = Fail THEN FALSE ELSE is_nonexplicit_info(binding_info(t))

is_implicit(f) ==
    IF m_implict THEN FALSE
    ELSE IF ~closed(f) THEN FALSE
    ELSE LET t == ensure_pi(infer(f))
         IN  IF t = Fail THEN FALSE ELSE is_nonexplicit_info(binding_info(t))

is_prop(e) ==
    LET r == tc_is_prop(e)
    IN  IF r = Fail THEN FALSE ELSE env_impredicative /\ Get(r)

RECURSIVE has_implicit_args_loop(_, _)
has_implicit_args_loop(type, i) ==
    IF type = Fail THEN FALSE
    ELSE IF ~is_pi(type) THEN FALSE
    ELSE IF is_nonexplicit_info(binding_info(type)) THEN TRUE
    ELSE LET n == <<"_tmp", Digits(i)>>
             local == mk_local(n, binding_name(type), binding_domain(type), binding_info(type))
         IN  has_implicit_args_loop(whnf(instantiate(binding_body(type), local)), i + 1)

has_implicit_args(f) ==
    IF ~closed(f) THEN FALSE ELSE has_implicit_args_loop(whnf(infer(f)), 1)

(***************************************************************************)
(* The leaf renderers.                                                     *)
(***************************************************************************)
pp_var(e, st) == result1(compose(tk("#"), format(<<"", Digits(var_idx(e))>>)), st)

pp_sort(e, st) ==
    IF env_impredicative /\ e = Prop THEN result1(tk("Prop"), st)
    ELSE IF m_universes
    THEN result1(tk("Type.{") \o pp_level(sort_level(e)) \o tk("}"), st)
    ELSE result1(tk("Type"), st)

\* the names of the environment that carry a namespace: <<namespace, short, full>>
env_qualified == { <<Nm("ns"), Nm("a"), Nm("ns.a")>>, <<Nm("ns"), Nm("b"), Nm("ns.b")>> }
replace_prefix(n, ns) ==
    IF \E q \in env_qualified : q[1] = ns /\ q[3] = n
    THEN (CHOOSE q \in env_qualified : q[1] = ns /\ q[3] = n)[2]
    ELSE n
env_find_qualified(ns, n) ==
    \E q \in env_qualified : q[1] = ns /\ q[2] = n /\ q[3] \in DOMAIN env_types

is_aliased(n) ==
    LET it == is_expr_aliased(n)
    IN  IF IsSome(it)
        THEN IF \E i \in 1..Len(env_namespaces) : env_find_qualified(env_namespaces[i], Get(it))
             THEN None ELSE it
        ELSE None

RECURSIVE pp_const_strip(_, _)
pp_const_strip(n, i) ==
    IF i > Len(env_namespaces) THEN n
    ELSE LET new_n == replace_prefix(n, env_namespaces[i])
         IN  IF new_n # n THEN new_n ELSE pp_const_strip(n, i + 1)

RECURSIVE pp_const_levels(_, _)
pp_const_levels(ls, i) ==
    IF i > Len(ls) THEN <<>>
    ELSE (IF is_max(ls[i]) \/ is_imax(ls[i]) THEN paren(pp_level(ls[i])) ELSE pp_level(ls[i]))
         \o pp_const_levels(ls, i + 1)

pp_const(e, st) ==
    LET n0 == const_name(e)
        n1 == IF ~m_full_names
              THEN IF IsSome(is_aliased(n0)) THEN Get(is_aliased(n0)) ELSE pp_const_strip(n0, 1)
              ELSE n0
        n  == IF ~m_private_names /\ IsSome(hidden_to_user_name(n1))
              THEN Get(hidden_to_user_name(n1)) ELSE n1
    IN  IF m_universes /\ const_levels(e) # <<>>
        THEN result1(format(n) \o tk(".{") \o pp_const_levels(const_levels(e), 1) \o tk("}"), st)
        ELSE result1(format(n), st)

pp_meta(e, st) == result1(compose(tk("?"), format(mlocal_name(e))), st)

pp_local(e, st) == result1(format(local_pp_name(e)), st)

pp_num(n, st) == result1(format(n), st)

(***************************************************************************)
(* Notation entries (frontends/lean/parser_config.h).  An entry is         *)
(* [is_numeral, num, is_nud, transitions, expr, safe_ascii]; a transition  *)
(* is [token, kind, rbp]: a token and the kind and right binding power of  *)
(* its action.                                                             *)
(***************************************************************************)
ActionKinds == {"Skip", "Expr", "Exprs", "Binder", "Binders", "ScopedExpr", "Ext", "LuaExt"}

mk_transition(t, k, rbp) == [token |-> Nm(t), kind |-> k, rbp |-> rbp]
mk_entry(nud, ts, e, safe) ==
    [is_numeral |-> FALSE, num |-> <<"", <<0>>>>, is_nud |-> nud, transitions |-> ts,
     expr |-> e, safe_ascii |-> safe]
mk_numeral_entry(n, e) ==
    [is_numeral |-> TRUE, num |-> <<"", Digits(n)>>, is_nud |-> TRUE, transitions |-> <<>>,
     expr |-> e, safe_ascii |-> TRUE]

RECURSIVE head_index_fn(_)
head_index_fn(f) == IF is_explicit(f) THEN head_index_fn(get_app_fn(get_explicit_arg(f))) ELSE f

head_index(e) ==
    LET f == head_index_fn(get_app_fn(e))
    IN  IF is_constant(f) THEN <<f[1], const_name(f)>>
        ELSE IF is_local(f) THEN <<f[1], mlocal_name(f)>>
        ELSE <<f[1], Nm("")>>

\* Return the number of parameters in a notation declaration.
RECURSIVE count_parameters(_, _)
count_parameters(ts, i) ==
    IF i > Len(ts) THEN 0
    ELSE (IF ts[i].kind \in {"Skip", "Binder", "Binders"} THEN 0 ELSE 1)
         + count_parameters(ts, i + 1)

get_num_parameters(entry) ==
    IF entry.is_numeral THEN 0
    ELSE (IF ~entry.is_nud THEN 1 ELSE 0) + count_parameters(entry.transitions, 1)

(***************************************************************************)
(* Matching a notation's pattern against a term.                           *)
(***************************************************************************)
RECURSIVE match_level(_, _)
match_level(p, l) ==
    IF p = l THEN TRUE
    ELSE IF m_universes THEN FALSE
    ELSE IF is_level_placeholder(p) THEN TRUE
    ELSE IF is_succ(p) /\ is_succ(l) THEN match_level(succ_of(p), succ_of(l))
    ELSE FALSE

\* the loop of the constant case over the two level lists
RECURSIVE match_levels(_, _)
match_levels(p_ls, e_ls) ==
    IF p_ls = <<>> THEN TRUE
    ELSE IF e_ls = <<>> THEN FALSE
    ELSE IF ~match_level(Head(p_ls), Head(e_ls)) THEN FALSE
    ELSE match_levels(Tail(p_ls), Tail(e_ls))

\* the constant case of match: both lists are read from the pattern p
match_constant(p, e) ==
    LET p_ls == const_levels(p)
        e_ls == const_levels(p)
    IN  match_levels(p_ls, e_ls)

\* match returns [ok, args]: whether the pattern matched and the match
\* environment (a sequence of optional terms) it leaves
RECURSIVE match(_, _, _)
RECURSIVE match_explicit_args(_, _, _, _)
RECURSIVE match_implicit_args(_, _, _, _, _, _)

match_explicit_args(p_args, e_args, i, args) ==
    IF i > Len(p_args) THEN [ok |-> TRUE, args |-> args]
    ELSE LET m == match(p_args[i], e_args[i], args)
         IN  IF ~m.ok THEN m ELSE match_explicit_args(p_args, e_args, i + 1, m.args)

\* i ranges over e_args and j over p_args (both from 1 here)
match_implicit_args(p_args, e_args, fn_type0, i, j, args) ==
    IF i > Len(e_args) THEN [ok |-> (j = Len(p_args) + 1), args |-> args]
    ELSE LET fn_type == ensure_pi(fn_type0)
         IN  IF fn_type = Fail THEN [ok |-> FALSE, args |-> args]
             ELSE IF is_explicit_info(binding_info(fn_type))
             THEN IF j > Len(p_args) THEN [ok |-> FALSE, args |-> args]
                  ELSE LET m == match(p_args[j], e_args[i], args)
                       IN  IF ~m.ok THEN m
                           ELSE match_implicit_args(p_args, e_args,
                                    instantiate(binding_body(fn_type), e_args[i]),
                                    i + 1, j + 1, m.args)
             ELSE match_implicit_args(p_args, e_args,
                      instantiate(binding_body(fn_type), e_args[i]), i + 1, j, args)

match(p, e, args) ==
    IF is_explicit(p) THEN match(get_explicit_arg(p), e, args)
    ELSE IF is_var(p)
    THEN LET vidx == var_idx(p)
         IN  IF vidx >= Len(args) THEN [ok |-> FALSE, args |-> args]
             ELSE LET i == Len(args) - vidx
                  IN  IF IsSome(args[i]) THEN [ok |-> (Get(args[i]) = e), args |-> args]
                      ELSE [ok |-> TRUE, args |-> [args EXCEPT ![i] = Some(e)]]
    ELSE IF is_placeholder(p) THEN [ok |-> TRUE, args |-> args]
    ELSE IF is_constant(p) /\ is_constant(e) THEN [ok |-> match_constant(p, e), args |-> args]
    ELSE IF is_sort(p)
    THEN IF ~is_sort(e) THEN [ok |-> FALSE, args |-> args]
         ELSE [ok |-> match_level(sort_level(p), sort_level(e)), args |-> args]
    ELSE IF is_app(e)
    THEN LET p_args == get_app_args(p)
             e_args == get_app_args(e)
             p_fn == get_app_fn(p)
             e_fn == get_app_fn(e)
             m == match(p_fn, e_fn, args)
         IN  IF ~m.ok THEN m
             ELSE IF is_explicit(p)
             THEN IF Len(p_args) # Len(e_args) THEN [ok |-> FALSE, args |-> m.args]
                  ELSE match_explicit_args(p_args, e_args, 1, m.args)
             ELSE LET fn_type == infer(e_fn)
                  IN  IF fn_type = Fail THEN [ok |-> FALSE, args |-> m.args]
                      ELSE match_implicit_args(p_args, e_args, fn_type, 1, 1, m.args)
    ELSE [ok |-> FALSE, args |-> args]

get_some_precedence(t) ==
    IF IsSome(get_precedence(t)) THEN Get(get_precedence(t)) ELSE 0

\* the notation declarations of the environment, in lookup order
env_notations ==
    << mk_entry(FALSE, <<mk_transition("+", "Expr", 65)>>,
                mk_app(mk_app(Cn("add"), mk_var(1)), mk_var(0)), TRUE),
       mk_entry(TRUE, <<mk_transition("-", "Expr", 100)>>,
                mk_app(Cn("neg"), mk_var(0)), TRUE),
       mk_entry(TRUE, <<mk_transition("\\u2211", "Binders", 0), mk_transition(",", "Expr", 0)>>,
                mk_app(Cn("f"), mk_var(0)), TRUE),
       mk_entry(TRUE, <<mk_transition("\\u27E8", "Expr", 0), mk_transition("\\u27E9", "Skip", 0)>>,
                mk_app(mk_app(Cn("f"), mk_var(0)), Cn("a")), FALSE),
       mk_entry(FALSE, <<mk_transition("*", "Expr", 70)>>,
                mk_app(mk_app(Cn("f"), mk_var(1)), mk_var(0)), TRUE),
       mk_entry(FALSE, <<mk_transition("+", "Expr", 65)>>,
                mk_app(mk_app(Cn("iadd"), mk_var(1)), mk_var(0)), TRUE),
       mk_entry(FALSE, <<mk_transition("!", "Skip", 0)>>,
                mk_app(Cn("coe"), mk_var(0)), TRUE),
       mk_numeral_entry(0, Cn("zero")),
       \* sub: a pattern that leaves the slot of its Expr transition empty,
       \* one that leaves the slot of the leading operand empty, and a full one
       mk_entry(FALSE, <<mk_transition("-", "Expr", 65)>>,
                mk_app(mk_app(Cn("sub"), mk_var(1)), Cn("_")), TRUE),
       mk_entry(FALSE, <<mk_transition("-", "Expr", 65)>>,
                mk_app(mk_app(Cn("sub"), mk_var(0)), mk_var(0)), TRUE),
       mk_entry(FALSE, <<mk_transition("-", "Expr", 65)>>,
                mk_app(mk_app(Cn("sub"), mk_var(1)), mk_var(0)), TRUE),
       \* sum: one entry for each kind of action pp_notation does not render
       mk_entry(TRUE, <<mk_transition("\\u2211", "Exprs", 0)>>,
                mk_app(Cn("sum"), mk_var(0)), TRUE),
       mk_entry(TRUE, <<mk_transition("\\u2211", "Binder", 0), mk_transition(",", "Expr", 0)>>,
                mk_app(Cn("sum"), mk_var(0)), TRUE),
       mk_entry(TRUE, <<mk_transition("\\u2211", "ScopedExpr", 0)>>,
                mk_app(Cn("sum"), mk_var(0)), TRUE),
       mk_entry(TRUE, <<mk_transition("\\u2211", "Ext", 0)>>,
                mk_app(Cn("sum"), mk_var(0)), TRUE),
       mk_entry(TRUE, <<mk_transition("\\u2211", "LuaExt", 0)>>,
                mk_app(Cn("sum"), mk_var(0)), TRUE),
       mk_entry(FALSE, <<mk_transition("*", "Expr", 70)>>,
                mk_app(mk_app(Cn("mul"), mk_var(1)), mk_var(0)), TRUE),
       mk_entry(FALSE, <<mk_transition("^", "Expr", 75)>>,
                mk_app(mk_app(Cn("ih"), mk_var(1)), mk_var(0)), TRUE) >>

get_notation_entries(idx) ==
    SelectSeq(env_notations, LAMBDA entry : head_index(entry.expr) = idx)

(***************************************************************************)
(* The printer.  Every renderer takes the counters st and returns a result *)
(* carrying the counters it leaves.                                        *)
(***************************************************************************)
is_default_arrow(e) == is_arrow(e) /\ binding_info(e) = "default"
is_have(e) == is_app(e) /\ is_have_annotation(app_fn(e))
is_show(e) ==
    /\ is_show_annotation(e)
    /\ is_app(get_annotation_arg(e))
    /\ is_lambda(app_fn(get_annotation_arg(e)))

\* the loop of pp_lambda: <<remaining body, locals>>
RECURSIVE pp_lambda_peel(_, _)
pp_lambda_peel(b, locals) ==
    IF is_lambda(b)
    THEN LET then(p) == pp_lambda_peel(p[1], Append(locals, p[2]))
         IN  then(binding_body_fresh(b))
    ELSE <<b, locals>>

\* the loop of pp_pi
RECURSIVE pp_pi_peel(_, _)
pp_pi_peel(b, locals) ==
    IF is_pi(b) /\ ~is_default_arrow(b)
    THEN LET then(p) == pp_pi_peel(p[1], Append(locals, p[2]))
         IN  then(binding_body_fresh(b))
    ELSE <<b, locals>>

\* the loop of pp_let: <<remaining term, decls>>, a decl being <<name, value>>
RECURSIVE pp_let_peel(_, _)
\* variant: the loop stops at a let whose value does not occur in its body
pp_let_peel_stop(e, decls) ==
    IF ~is_let(e) THEN <<e, decls>>
    ELSE LET n == get_let_var_name(e)
             v == get_let_value(e)
             b == get_let_body(e)
             then(b1) ==
                 IF closed(b1) THEN <<b1, decls>>
                 ELSE LET then_name(n1) ==
                              pp_let_peel(instantiate(b1, mk_constant(n1, <<>>)),
                                          Append(decls, <<n1, v>>))
                      IN  then_name(pick_unused_name(b1, n))
         IN  then(abstract(b, v))

pp_let_peel(e, decls) ==
    IF ~is_let(e) THEN <<e, decls>>
    ELSE LET n == get_let_var_name(e)
             v == get_let_value(e)
             b == get_let_body(e)
             then(b1) ==
                 IF closed(b1) THEN pp_let_peel(b1, decls)
                 ELSE LET then_name(n1) ==
                              pp_let_peel(instantiate(b1, mk_constant(n1, <<>>)),
                                          Append(decls, <<n1, v>>))
                      IN  then_name(pick_unused_name(b1, n))
         IN  then(abstract(b, v))

binder_open(bi) ==
    IF bi = "implicit" THEN tk("{")
    ELSE IF bi = "inst_implicit" THEN tk("[")
    ELSE IF bi = "strict_implicit" /\ m_unicode THEN tk("\\u2983")
    ELSE IF bi = "strict_implicit" /\ ~m_unicode THEN tk("{{")
    ELSE tk("(")

binder_close(bi) ==
    IF bi = "implicit" THEN tk("}")
    ELSE IF bi = "inst_implicit" THEN tk("]")
    ELSE IF bi = "strict_implicit" /\ m_unicode THEN tk("\\u2984")
    ELSE IF bi = "strict_implicit" /\ ~m_unicode THEN tk("}}")
    ELSE tk(")")

RECURSIVE pp(_, _)
RECURSIVE pp_dispatch(_, _)
RECURSIVE pp_child(_, _, _)
RECURSIVE pp_child_core(_, _, _)
RECURSIVE pp_coercion(_, _, _)
RECURSIVE pp_coercion_fn(_, _, _)
RECURSIVE pp_app(_, _)
RECURSIVE pp_binder_block(_, _, _, _)
RECURSIVE pp_binders_loop(_, _, _)
RECURSIVE pp_binders(_, _)
RECURSIVE pp_lambda(_, _)
RECURSIVE pp_pi(_, _)
RECURSIVE pp_have(_, _)
RECURSIVE pp_show(_, _)
RECURSIVE pp_explicit(_, _)
RECURSIVE pp_macro_args(_, _, _)
RECURSIVE pp_macro(_, _)
RECURSIVE pp_let_decls(_, _, _)
RECURSIVE pp_let(_, _)
RECURSIVE pp_notation_child(_, _, _, _)
RECURSIVE pp_notation_loop(_, _)
RECURSIVE pp_notation_entry(_, _, _)
RECURSIVE pp_notation_entries(_, _, _, _)
RECURSIVE pp_notation(_, _)
RECURSIVE pp_generic(_, _)

\* A value that a call of the printer returns is named by making it the
\* argument of a local operator: `LET then(r) == F(r) IN then(pp(e, st))'
\* is F applied to the result of the one call pp(e, st).

\* the result r, parenthesised when its right binding power is below bp
paren_if_below(r, bp) == IF r.rbp < bp THEN result1(paren(r.fmt), r.st) ELSE r

pp_child_core(e, bp, st) == paren_if_below(pp(e, st), bp)

pp_child(e, bp, st) ==
    IF is_app(e) /\ is_implicit(app_fn(e)) THEN pp_child(app_fn(e), bp, st)
    ELSE IF is_app(e) /\ ~m_coercion /\ IsSome(is_coercion(get_app_fn(e)))
    THEN pp_coercion(e, bp, st)
    ELSE pp_child_core(e, bp, st)

\* the result of an application from the results of its function and argument
app_result(explicit, res_fn, res_arg) ==
    result2(max_bp - 1,
            compose(IF explicit THEN compose(g_explicit_fmt, res_fn.fmt) ELSE res_fn.fmt,
                    res_arg.fmt),
            res_arg.st)

pp_coercion_fn(e, sz, st) ==
    IF sz = 1 THEN pp_child(app_arg(e), max_bp - 1, st)
    ELSE IF is_app(e) /\ is_implicit(app_fn(e)) THEN pp_coercion_fn(app_fn(e), sz - 1, st)
    ELSE LET fn == app_fn(e)
             then(res_fn) ==
                 app_result(m_implict /\ sz = 2 /\ has_implicit_args(fn), res_fn,
                            pp_child(app_arg(e), max_bp, res_fn.st))
         IN  then(pp_coercion_fn(fn, sz - 1, st))

\* variant: the final argument alone when the coercion takes as many
\* arguments as the application has
pp_coercion_full_count(e, bp, st) ==
    LET args == get_app_args(e)
        f == get_app_fn(e)
        r == Get(is_coercion(f))
    IN  IF r > Len(args) THEN pp_child_core(e, bp, st)
        ELSE IF r = Len(args) THEN pp_child(args[Len(args)], bp, st)
        ELSE paren_if_below(pp_coercion_fn(e, Len(args) - r, st), bp)

pp_coercion(e, bp, st) ==
    LET args == get_app_args(e)
        f == get_app_fn(e)
        r == Get(is_coercion(f))
    IN  IF r >= Len(args) THEN pp_child_core(e, bp, st)
        ELSE IF r = Len(args) - 1 THEN pp_child(args[Len(args)], bp, st)
        ELSE paren_if_below(pp_coercion_fn(e, Len(args) - r, st), bp)

pp_app(e, st) ==
    LET fn == app_fn(e)
        then(res_fn) ==
            app_result(m_implict /\ ~is_app(fn) /\ has_implicit_args(fn), res_fn,
                       pp_child(app_arg(e), max_bp, res_fn.st))
    IN  then(pp_child(fn, max_bp - 1, st))

\* pp_binder_block returns [fmt, st]
pp_binder_block(names, type, bi, st) ==
    LET then(t) ==
            [fmt |-> binder_open(bi) \o names \o colon \o t.fmt \o binder_close(bi),
             st |-> t.st]
    IN  then(pp_child(type, 0, st))

\* the loop of pp_binders over locals[i..]; L = [names, type, bi, r, st, blocks].
\* blocks records the blocks emitted, each [names, type, bi].
\* variant: a binder joins the current block when its type is the block's,
\* whatever its binder information
pp_binders_loop_type_only(locals, i, L) ==
    IF i > Len(locals)
    THEN LET then(b) ==
                 [fmt |-> L.r \o b.fmt, st |-> b.st,
                  blocks |-> Append(L.blocks,
                                    [names |-> L.names, type |-> L.type, bi |-> L.bi])]
         IN  then(pp_binder_block(L.names, L.type, L.bi, L.st))
    ELSE LET local == locals[i]
         IN  IF mlocal_type(local) = L.type
             THEN pp_binders_loop(locals, i + 1,
                      [L EXCEPT !.names = Append(L.names, local_pp_name(local))])
             ELSE LET then(b) ==
                          pp_binders_loop(locals, i + 1,
                              [names |-> <<local_pp_name(local)>>,
                               type |-> mlocal_type(local),
                               bi |-> local_info(local), r |-> L.r \o b.fmt, st |-> b.st,
                               blocks |-> Append(L.blocks,
                                   [names |-> L.names, type |-> L.type, bi |-> L.bi])])
                  IN  then(pp_binder_block(L.names, L.type, L.bi, L.st))

pp_binders_loop(locals, i, L) ==
    IF i > Len(locals)
    THEN LET then(b) ==
                 [fmt |-> L.r \o b.fmt, st |-> b.st,
                  blocks |-> Append(L.blocks,
                                    [names |-> L.names, type |-> L.type, bi |-> L.bi])]
         IN  then(pp_binder_block(L.names, L.type, L.bi, L.st))
    ELSE LET local == locals[i]
         IN  IF mlocal_type(local) = L.type /\ local_info(local) = L.bi
             THEN pp_binders_loop(locals, i + 1,
                      [L EXCEPT !.names = Append(L.names, local_pp_name(local))])
             ELSE LET then(b) ==
                          pp_binders_loop(locals, i + 1,
                              [names |-> <<local_pp_name(local)>>,
                               type |-> mlocal_type(local),
                               bi |-> local_info(local), r |-> L.r \o b.fmt, st |-> b.st,
                               blocks |-> Append(L.blocks,
                                   [names |-> L.names, type |-> L.type, bi |-> L.bi])])
                  IN  then(pp_binder_block(L.names, L.type, L.bi, L.st))

pp_binders(locals, st) ==
    pp_binders_loop(locals, 2,
        [names |-> <<local_pp_name(locals[1])>>, type |-> mlocal_type(locals[1]),
         bi |-> local_info(locals[1]), r |-> <<>>, st |-> st, blocks |-> <<>>])

\* keyword, binders and body of a lambda or Pi: the body is printed after
\* the binders bs
\* variant: a binder list is given the binding power of an arrow
binding_result_arrow(kw, bs, body) ==
    result2(get_arrow_prec - 1, kw \o bs.fmt \o comma \o body.fmt, body.st)

binding_result(kw, bs, body) == result2(0, kw \o bs.fmt \o comma \o body.fmt, body.st)

pp_lambda(e, st) ==
    LET then(p) ==
            LET then_bs(bs) ==
                    binding_result(IF m_unicode THEN g_lambda_n_fmt ELSE g_lambda_fmt,
                                   bs, pp_child(p[1], 0, bs.st))
            IN  then_bs(pp_binders(p[2], st))
    IN  then(pp_lambda_peel(e, <<>>))

pp_pi(e, st) ==
    IF is_default_arrow(e)
    THEN LET then(lhs) ==
                 LET then_rhs(rhs) ==
                         result2(get_arrow_prec - 1,
                                 lhs.fmt \o (IF m_unicode THEN g_arrow_n_fmt ELSE g_arrow_fmt)
                                         \o rhs.fmt,
                                 rhs.st)
                 IN  then_rhs(pp_child(lift_free_vars(binding_body(e), 1),
                                       get_arrow_prec - 1, lhs.st))
         IN  then(pp_child(binding_domain(e), get_arrow_prec, st))
    ELSE LET then(p) ==
                 LET kw == IF is_prop(p[1])
                           THEN (IF m_unicode THEN g_forall_n_fmt ELSE g_forall_fmt)
                           ELSE (IF m_unicode THEN g_pi_n_fmt ELSE g_pi_fmt)
                     then_bs(bs) == binding_result(kw, bs, pp_child(p[1], 0, bs.st))
                 IN  then_bs(pp_binders(p[2], st))
         IN  then(pp_pi_peel(e, <<>>))

pp_have(e, st) ==
    LET proof == app_arg(e)
        binding == get_annotation_arg(app_fn(e))
        then(p) ==
            LET then_type(type_r) ==
                    LET then_proof(proof_r) ==
                            LET then_body(body_r) ==
                                    result2(0, g_have_fmt \o format(local_pp_name(p[2]))
                                               \o (IF binding_info(binding) = "contextual"
                                                   THEN g_visible_fmt ELSE <<>>)
                                               \o colon \o type_r.fmt \o comma \o g_from_fmt
                                               \o proof_r.fmt \o comma \o body_r.fmt,
                                            body_r.st)
                            IN  then_body(pp_child(p[1], 0, proof_r.st))
                    IN  then_proof(pp_child(proof, 0, type_r.st))
            IN  then_type(pp_child(mlocal_type(p[2]), 0, st))
    IN  then(binding_body_fresh(binding))

pp_show(e, st) ==
    LET s == get_annotation_arg(e)
        proof == app_arg(s)
        type == binding_domain(app_fn(s))
        then(type_r) ==
            LET then_proof(proof_r) ==
                    result2(0, g_show_fmt \o type_r.fmt \o comma \o g_from_fmt \o proof_r.fmt,
                            proof_r.st)
            IN  then_proof(pp_child(proof, 0, type_r.st))
    IN  then(pp_child(type, 0, st))

pp_explicit(e, st) ==
    LET then(res_arg) == result2(max_bp, compose(g_explicit_fmt, res_arg.fmt), res_arg.st)
    IN  then(pp_child(get_explicit_arg(e), max_bp, st))

\* [fmt, st]: the format fmt followed by what the rest of a loop printed
followed_by(fmt, rest) == [fmt |-> fmt \o rest.fmt, st |-> rest.st]

\* the loop of pp_macro over the arguments: [fmt, st]
pp_macro_args(es, i, st) ==
    IF i > Len(es) THEN [fmt |-> <<>>, st |-> st]
    ELSE LET then(a) == followed_by(a.fmt, pp_macro_args(es, i + 1, a.st))
         IN  then(pp_child(es[i], max_bp, st))

pp_macro(e, st) ==
    IF is_explicit(e) THEN pp_explicit(e, st)
    ELSE LET then(a) == result1(tk("[") \o tk(macro_def(e)) \o a.fmt \o tk("]"), a.st)
         IN  then(pp_macro_args(macro_exprs(e), 1, st))

\* the loop of pp_let over the declarations: [fmt, st]
pp_let_decls(decls, i, st) ==
    IF i > Len(decls) THEN [fmt |-> <<>>, st |-> st]
    ELSE LET sep == IF i < Len(decls) THEN comma ELSE <<>>
             then(v) ==
                 followed_by(format(decls[i][1]) \o g_assign_fmt \o v.fmt \o sep,
                             pp_let_decls(decls, i + 1, v.st))
         IN  then(pp_child(decls[i][2], 0, st))

pp_let(e0, st) ==
    LET then(p) ==
            IF p[2] = <<>> THEN pp(p[1], st)
            ELSE LET then_decls(d) ==
                         LET then_body(b) ==
                                 result2(0, g_let_fmt \o d.fmt \o g_in_fmt \o b.fmt, b.st)
                         IN  then_body(pp_child(p[1], 0, d.st))
                 IN  then_decls(pp_let_decls(p[2], 1, st))
    IN  then(pp_let_peel(e0, <<>>))

\* the result r, parenthesised when the binding powers around it require
paren_if_needed(r, lbp, rbp) ==
    IF r.rbp < lbp \/ r.lbp <= rbp THEN result1(paren(r.fmt), r.st) ELSE r

pp_notation_child(e, lbp, rbp, st) ==
    IF is_app(e) /\ is_implicit(app_fn(e)) THEN pp_notation_child(app_fn(e), lbp, rbp, st)
    ELSE IF is_app(e) /\ ~m_coercion /\ IsSome(is_coercion(get_app_fn(e)))
    THEN pp_coercion(e, rbp, st)
    ELSE paren_if_needed(pp(e, st), lbp, rbp)

\* the loop of pp_notation(entry, args) over the transitions ts[1..i], last
\* to first; L = [i, fmt, last_rbp, token_lbp, last, args, st].  It returns
\* [res, st]: the optional result and the counters, which the children
\* rendered before a failure have advanced.
pp_notation_loop(entry, L) ==
    IF L.i = 0
    THEN IF ~entry.is_nud
         THEN IF Len(L.args) # 1 \/ ~IsSome(L.args[Len(L.args)])
              THEN [res |-> None, st |-> L.st]
              ELSE LET then(e_r) ==
                           [res |-> Some(result3(L.token_lbp, L.last_rbp,
                                                 e_r.fmt \o L.fmt, e_r.st)),
                            st |-> e_r.st]
                   IN  then(pp_notation_child(Get(L.args[Len(L.args)]), L.token_lbp, 0, L.st))
         ELSE [res |-> Some(result3(L.token_lbp, L.last_rbp, L.fmt, L.st)), st |-> L.st]
    ELSE LET t == entry.transitions[L.i]
         IN  IF t.kind = "Skip"
             THEN LET curr == format(t.token)
                  IN  pp_notation_loop(entry,
                          [L EXCEPT !.i = L.i - 1,
                                    !.last_rbp = IF L.last THEN get_some_precedence(t.token)
                                                 ELSE L.last_rbp,
                                    !.token_lbp = get_some_precedence(t.token),
                                    !.fmt = IF L.last THEN curr ELSE curr \o L.fmt,
                                    !.last = FALSE])
             ELSE IF t.kind = "Expr"
             THEN IF L.args = <<>> \/ ~IsSome(L.args[Len(L.args)])
                  THEN [res |-> None, st |-> L.st]
                  ELSE LET then(e_r) ==
                               pp_notation_loop(entry,
                                   [L EXCEPT !.i = L.i - 1,
                                             !.args = SubSeq(L.args, 1, Len(L.args) - 1),
                                             !.st = e_r.st,
                                             !.last_rbp = IF L.last THEN t.rbp ELSE L.last_rbp,
                                             !.token_lbp = get_some_precedence(t.token),
                                             !.fmt = IF L.last THEN format(t.token) \o e_r.fmt
                                                     ELSE format(t.token) \o e_r.fmt \o L.fmt,
                                             !.last = FALSE])
                       IN  then(pp_notation_child(Get(L.args[Len(L.args)]),
                                                  L.token_lbp, t.rbp, L.st))
             ELSE [res |-> None, st |-> L.st]

\* variant: an attempt that fails returns what it has printed so far
pp_notation_entry_partial(entry, args, st) ==
    LET then(r) ==
            IF IsSome(r.res) THEN r
            ELSE [res |-> Some(result1(<<>>, r.st)), st |-> r.st]
    IN  then(IF entry.is_numeral
             THEN [res |-> Some(result1(format(entry.num), st)), st |-> st]
             ELSE pp_notation_loop(entry,
                      [i |-> Len(entry.transitions), fmt |-> <<>>, last_rbp |-> max_bp - 1,
                       token_lbp |-> 0, last |-> TRUE, args |-> args, st |-> st]))

pp_notation_entry(entry, args, st) ==
    IF entry.is_numeral
    THEN [res |-> Some(result1(format(entry.num), st)), st |-> st]
    ELSE pp_notation_loop(entry,
             [i |-> Len(entry.transitions), fmt |-> <<>>, last_rbp |-> max_bp - 1,
              token_lbp |-> 0, last |-> TRUE, args |-> args, st |-> st])

\* args.resize(num_params): a buffer of num_params empty optional terms
RECURSIVE empty_args(_)
empty_args(n) == IF n = 0 THEN <<>> ELSE Append(empty_args(n - 1), None)

\* the loop of pp_notation(e) over the entries es[i..]
pp_notation_entries(es, i, e, st) ==
    IF i > Len(es) THEN [res |-> None, st |-> st]
    ELSE IF ~m_unicode /\ ~es[i].safe_ascii THEN pp_notation_entries(es, i + 1, e, st)
    ELSE LET then(m) ==
                 IF m.ok
                 THEN LET then_entry(r) ==
                              IF IsSome(r.res) THEN r
                              ELSE pp_notation_entries(es, i + 1, e, r.st)
                      IN  then_entry(pp_notation_entry(es[i], m.args, st))
                 ELSE pp_notation_entries(es, i + 1, e, st)
         IN  then(match(es[i].expr, e, empty_args(get_num_parameters(es[i]))))

\* variant: the notations are tried whatever m_notation says
pp_notation_always(e, st) ==
    IF is_var(e) THEN [res |-> None, st |-> st]
    ELSE pp_notation_entries(get_notation_entries(head_index(e)), 1, e, st)

pp_notation(e, st) ==
    IF ~m_notation \/ is_var(e) THEN [res |-> None, st |-> st]
    ELSE pp_notation_entries(get_notation_entries(head_index(e)), 1, e, st)

\* the generic rendering: pp after a notation attempt that returned nothing
\* and left the counters st1
pp_generic(e, st1) ==
    IF is_placeholder(e) THEN result1(g_placeholder_fmt, st1)
    ELSE IF is_show(e) THEN pp_show(e, st1)
    ELSE IF is_have(e) THEN pp_have(e, st1)
    ELSE IF is_let(e) THEN pp_let(e, st1)
    ELSE IF is_typed_expr(e) THEN pp(get_typed_expr_expr(e), st1)
    ELSE IF is_let_value(e) THEN pp(get_let_value_expr(e), st1)
    ELSE IF IsSome(to_num(e)) THEN pp_num(Get(to_num(e)), st1)
    ELSE IF ~m_metavar_args /\ is_meta(e) THEN pp_meta(get_app_fn(e), st1)
    ELSE CASE is_var(e) -> pp_var(e, st1)
           [] is_sort(e) -> pp_sort(e, st1)
           [] is_constant(e) -> pp_const(e, st1)
           [] is_metavar(e) -> pp_meta(e, st1)
           [] is_local(e) -> pp_local(e, st1)
           [] is_app(e) -> pp_app(e, st1)
           [] is_lambda(e) -> pp_lambda(e, st1)
           [] is_pi(e) -> pp_pi(e, st1)
           [] is_macro(e) -> pp_macro(e, st1)

\* pp after the limits were checked and the counters advanced: the result
\* of the notation attempt, or else the generic rendering
pp_dispatch(e, st) ==
    LET then(r) == IF IsSome(r.res) THEN Get(r.res) ELSE pp_generic(e, r.st)
    IN  then(pp_notation(e, st))

\* the counters inside an invocation of pp that passed the limits: m_depth
\* and m_num_steps are both one more
advanced(st) ==
    [depth |-> st.depth + 1, steps |-> st.steps + 1,
     deepest |-> Max(st.deepest, st.depth + 1)]

\* variant: the limits are reached one level, and one step, sooner
pp_at_limit(e, st) ==
    IF st.depth >= m_max_depth \/ st.steps >= m_max_steps
    THEN result1(IF m_unicode THEN g_ellipsis_n_fmt ELSE g_ellipsis_fmt, st)
    ELSE LET then(r) == [r EXCEPT !.st = [r.st EXCEPT !.depth = st.depth]]
         IN  then(pp_dispatch(e, advanced(st)))

\* variant: the depth is not restored on return
pp_no_restore(e, st) ==
    IF st.depth > m_max_depth \/ st.steps > m_max_steps
    THEN result1(IF m_unicode THEN g_ellipsis_n_fmt ELSE g_ellipsis_fmt, st)
    ELSE pp_dispatch(e, advanced(st))

\* flet<unsigned> let_d(m_depth, m_depth+1): the depth is restored on return
pp(e, st) ==
    IF st.depth > m_max_depth \/ st.steps > m_max_steps
    THEN result1(IF m_unicode THEN g_ellipsis_n_fmt ELSE g_ellipsis_fmt, st)
    ELSE LET then(r) == [r EXCEPT !.st = [r.st EXCEPT !.depth = st.depth]]
         IN  then(pp_dispatch(e, advanced(st)))

\* kernel beta_reduce: every beta redex of the term is contracted
RECURSIVE beta_reduce(_)
RECURSIVE beta_reduce_args(_)
beta_reduce_args(es) ==
    IF es = <<>> THEN <<>>
    ELSE <<beta_reduce(Head(es))>> \o beta_reduce_args(Tail(es))

beta_reduce(e) ==
    CASE is_app(e) ->
            LET f == beta_reduce(app_fn(e))
                a == beta_reduce(app_arg(e))
            IN  IF is_lambda(f) THEN beta_reduce(instantiate(binding_body(f), a))
                ELSE mk_app(f, a)
      [] is_binding(e) ->
            <<e[1], binding_name(e), beta_reduce(binding_domain(e)),
              beta_reduce(binding_body(e)), binding_info(e)>>
      [] is_macro(e) ->
            update_macro(e, beta_reduce_args(macro_exprs(e)))
      [] OTHER -> e

(***************************************************************************)
(* pretty_fn::operator()(e), as a function of the tables P it finds: the   *)
(* counters are reset, the term is purified (after beta reduction when     *)
(* m_beta) and printed.  [e, P, fmt, st]: the purified term, the tables    *)
(* left, the format returned and the counters left.                        *)
(***************************************************************************)
\* variant: every call purifies with empty tables and the counter at 1
operator_call_reset(e, P) ==
    LET then(pu) ==
            LET then_pp(r) == [e |-> pu.e, P |-> pu.P, fmt |-> r.fmt, st |-> r.st]
            IN  then_pp(pp_child(pu.e, 0, counters(0, 0)))
    IN  then(purify(IF m_beta THEN beta_reduce(e) ELSE e,
                    [mt |-> <<>>, lt |-> <<>>, used |-> {}, idx |-> 1]))

\* variant: the call goes on from the depth and the steps it finds
operator_call_continue(e, P) ==
    LET then(pu) ==
            LET then_pp(r) == [e |-> pu.e, P |-> pu.P, fmt |-> r.fmt, st |-> r.st]
            IN  then_pp(pp_child(pu.e, 0, counters(m_depth, m_num_steps)))
    IN  then(purify(IF m_beta THEN beta_reduce(e) ELSE e, P))

operator_call(e, P) ==
    LET then(pu) ==
            LET then_pp(r) == [e |-> pu.e, P |-> pu.P, fmt |-> r.fmt, st |-> r.st]
            IN  then_pp(pp_child(pu.e, 0, counters(0, 0)))
    IN  then(purify(IF m_beta THEN beta_reduce(e) ELSE e, P))

(***************************************************************************)
(*                          S P E C I F I C A T I O N S                    *)
(***************************************************************************)

(***************************************************************************)
(* SpecPurify: purify on one renderer instance.  A term is drawn, purified *)
(* (Purify), possibly purified again (Repurify), and the next term is      *)
(* drawn for the same instance (NextTerm), whose tables persist.           *)
(***************************************************************************)
MaxSpine == 2
MaxPurify == 2
MaxTerms == 2

PurifyAtoms ==
    { mk_metavar(Nm("a"), TyA), mk_metavar(Nm("b"), TyA),
      mk_local(<<"l", <<1>>>>, Nm("x"), TyA, "default"),
      mk_local(<<"l", <<2>>>>, Nm("x"), TyA, "default"),
      mk_local(<<"l", <<3>>>>, <<"x", <<1>>>>, TyA, "default"),
      mk_local(<<"l", <<4>>>>, <<"M", <<1>>>>, TyA, "default"),
      mk_constant(Nm("c"), <<mk_succ(mk_meta_univ(Nm("u")))>>) }

RECURSIVE Spines(_, _)
Spines(atoms, n) ==
    IF n = 1 THEN atoms
    ELSE atoms \cup { mk_app(f, a) : f \in Spines(atoms, n - 1), a \in atoms }

PurifyTerms == Spines(PurifyAtoms, MaxSpine)
PurifyOptions == { [DefaultOptions EXCEPT !.universes = u] : u \in BOOLEAN }

InitPurify ==
    /\ \E o \in PurifyOptions : pretty_fn(o)
    /\ m_depth = 0 /\ m_num_steps = 0
    /\ inp \in [e : PurifyTerms, call : {1}]
    /\ out = <<>>
    /\ pc = "ready"

Purify ==
    /\ pc = "ready"
    /\ LET r == purify(inp.e, PurifyState)
       IN  /\ out' = <<r.e>>
           /\ SetPurifyState(r.P)
    /\ pc' = "done"
    /\ UNCHANGED <<optvars, ctrvars, inp>>

Repurify ==
    /\ pc = "done"
    /\ Len(out) < MaxPurify
    /\ LET r == purify(out[Len(out)], PurifyState)
       IN  /\ out' = Append(out, r.e)
           /\ SetPurifyState(r.P)
    /\ UNCHANGED <<optvars, ctrvars, inp, pc>>

NextTerm ==
    /\ pc = "done"
    /\ Len(out) = 1
    /\ inp.call < MaxTerms
    /\ inp' \in [e : PurifyTerms, call : {inp.call + 1}]
    /\ out' = <<>>
    /\ pc' = "ready"
    /\ UNCHANGED <<optvars, ctrvars, purvars>>

NextPurify == Purify \/ Repurify \/ NextTerm
SpecPurify == InitPurify /\ [][NextPurify]_vars

\* the metavariable and local occurrences of a term, in traversal order
\* (purify keeps the shape of the term, so occurrence k of purify(e) is
\* what occurrence k of e became)
RECURSIVE occurrences(_)
RECURSIVE occurrences_args(_)
occurrences_args(es) ==
    IF es = <<>> THEN <<>> ELSE occurrences(Head(es)) \o occurrences_args(Tail(es))

occurrences(e) ==
    CASE is_metavar(e) \/ is_local(e) -> <<e>>
      [] is_app(e) -> occurrences(app_fn(e)) \o occurrences(app_arg(e))
      [] is_binding(e) -> occurrences(binding_domain(e)) \o occurrences(binding_body(e))
      [] is_macro(e) -> occurrences_args(macro_exprs(e))
      [] OTHER -> <<>>

\* what identifies an occurrence, and the name the printer displays for it
identity(x) == <<x[1], mlocal_name(x)>>
display_name(x) ==
    IF is_metavar(x) THEN pp_meta(x, counters(0, 0)).fmt
    ELSE pp_local(x, counters(0, 0)).fmt

MaxNest == 4
MaxDepthOption == 2
FewSteps == 3
ManySteps == 40

RECURSIVE NestArg(_)
NestArg(n) == IF n = 0 THEN Cn("a") ELSE mk_app(Cn("neg"), NestArg(n - 1))
RECURSIVE NestFn(_)
NestFn(n) == IF n = 0 THEN Cn("b") ELSE mk_app(NestFn(n - 1), Cn("a"))
RECURSIVE Lambdas(_)
Lambdas(n) == IF n = 0 THEN Cn("a") ELSE mk_lambda(Nm("x"), TyA, Lambdas(n - 1), "default")
RECURSIVE Pis(_)
Pis(n) == IF n = 0 THEN TyA ELSE mk_pi(Nm("x"), TyA, Pis(n - 1), "implicit")

\* let x := v1 in ... let x := vn in [tuple v1 ... vn]
LetValueNames == <<"a", "b", "zero", "h", "A", "B">>
LetValue(i) == mk_annotation("let_value", Cn(LetValueNames[i]))
RECURSIVE LetValues(_)
LetValues(n) == IF n = 0 THEN <<>> ELSE Append(LetValues(n - 1), LetValue(n))
RECURSIVE Lets(_, _)
Lets(i, n) ==
    IF i > n THEN mk_macro("tuple", LetValues(n))
    ELSE mk_let(Nm("x"), LetValue(i), Lets(i + 1, n))

Families == {"arg", "fn", "lambda", "pi", "let"}
NestedTerm(family, n) ==
    CASE family = "arg" -> NestArg(n)
      [] family = "fn" -> NestFn(n)
      [] family = "lambda" -> Lambdas(n)
      [] family = "pi" -> Pis(n)
      [] family = "let" -> Lets(1, n)

\* the number of nested constructors above the deepest leaf of a term
RECURSIVE nesting(_)
RECURSIVE nesting_args(_)
nesting_args(es) == IF es = <<>> THEN 0 ELSE Max(nesting(Head(es)), nesting_args(Tail(es)))
nesting(e) ==
    CASE is_app(e) -> 1 + Max(nesting(app_fn(e)), nesting(app_arg(e)))
      [] is_binding(e) -> 1 + Max(nesting(binding_domain(e)), nesting(binding_body(e)))
      [] is_macro(e) -> 1 + nesting_args(macro_exprs(e))
      [] OTHER -> 0

DepthOptions ==
    { [DefaultOptions EXCEPT !.max_depth = d, !.max_steps = s, !.unicode = u] :
          d \in 0..MaxDepthOption, s \in {FewSteps, ManySteps}, u \in BOOLEAN }

InitDepth ==
    /\ \E o \in DepthOptions : pretty_fn(o)
    /\ m_depth = 0 /\ m_num_steps = 0
    /\ \E family \in Families, n \in 1..MaxNest :
          inp \in [family : {family}, n : {n}, e : {NestedTerm(family, n)},
                   st : {counters(d, s) : d \in 0..(MaxDepthOption + 1), s \in {0, FewSteps, FewSteps + 1}}]
    /\ out = <<>>
    /\ pc = "ready"

Render ==
    /\ pc = "ready"
    /\ out' = pp(inp.e, inp.st)
    /\ pc' = "done"
    /\ UNCHANGED <<optvars, ctrvars, purvars, inp>>

NextDepth == Render
SpecDepth == InitDepth /\ [][NextDepth]_vars

\* the ellipsis of the current options, and whether a format shows it
ellipsis_fmt == IF m_unicode THEN g_ellipsis_n_fmt ELSE g_ellipsis_fmt
has_ellipsis(fmt) == \E i \in 1..Len(fmt) : <<fmt[i]>> = ellipsis_fmt

\* pp was entered at the top (depth 0, no step made) and the step limit
\* was not reached anywhere in the term
NoStepLimit == inp.st = counters(0, 0) /\ out.st.steps <= m_max_steps

RECURSIVE count_tokens(_, _)
count_tokens(fmt, tokens) ==
    IF fmt = <<>> THEN 0
    ELSE (IF <<Head(fmt)>> \in tokens THEN 1 ELSE 0) + count_tokens(Tail(fmt), tokens)
tokens_shown(fmt) == Len(fmt) - count_tokens(fmt, {tk("("), tk(")")})
elided(fmt) == count_tokens(fmt, {ellipsis_fmt})

\* the pp invocations that printed out.fmt and did not return the ellipsis.
\* Nested applications of neg are printed by its prefix notation: every
\* token, the ellipsis excepted, is the trace of one invocation.  A nested
\* application of b is printed by pp_app: its tokens are the leaves of a
\* binary tree of invocations, one invocation more than the leaves below it
\* at every application that was entered.
invocations_shown ==
    CASE inp.family = "arg" -> tokens_shown(out.fmt) - elided(out.fmt)
      [] inp.family = "fn" -> 2 * tokens_shown(out.fmt) - 1 - elided(out.fmt)

\* C13: an invocation of pp returns with the depth it was entered with,
\* whether it returns the ellipsis, a notation or the result of a nested
\* renderer; the step counter never decreases, is left alone by an
\* invocation that returns the ellipsis, and has grown by one for every
\* invocation, nested ones included, that did not return the ellipsis.
C13_CountersPerInvocation ==
    (pc = "done") =>
        /\ out.st.depth = inp.st.depth
        /\ out.st.steps >= inp.st.steps
        /\ (out.fmt = ellipsis_fmt) => (out.st.steps = inp.st.steps)
        /\ (out.fmt # ellipsis_fmt) => (out.st.steps >= inp.st.steps + 1)
        /\ inp.family \in {"arg", "fn"}
               => (out.st.steps = inp.st.steps + invocations_shown)

\* an invocation entered below the top returned through the notation of
\* neg, around a nested invocation that returned the ellipsis
C13_Witness ==
    /\ pc = "done"
    /\ inp.family = "arg"
    /\ inp.st.depth >= 1
    /\ out.fmt # ellipsis_fmt
    /\ has_ellipsis(out.fmt)
    /\ out.st.depth = inp.st.depth
    /\ out.st.steps >= inp.st.steps + 2

(***************************************************************************)
(* SpecNotation: pretty_fn::pp on terms whose heads have notations, on one *)
(* instance whose options are changed between renderings (set_options).    *)
(* out is the sequence of renderings of the term inp.e, each with the      *)
(* value of use-notation and unicode it was made under.                    *)
(***************************************************************************)
MaxRenders == 2

NotationAtoms == {Cn("a"), Cn("b")}
App1(f, x) == mk_app(Cn(f), x)
App2(f, x, y) == mk_app(mk_app(Cn(f), x), y)
NotationTerms1 ==
    {Cn("zero"), mk_var(1)}
        \cup { App2(f, x, y) : f \in {"add", "sub"}, x \in NotationAtoms, y \in NotationAtoms }
        \cup { App2("f", x, Cn("a")) : x \in NotationAtoms }
        \cup { App1(f, x) : f \in {"neg", "f", "coe", "sum"}, x \in NotationAtoms }
        \cup { mk_app(App2("iadd", Cn("a"), x), Cn("b")) : x \in NotationAtoms }
NotationTerms ==
    NotationTerms1 \cup { App1("neg", t) : t \in NotationTerms1 }
                   \cup { App2("add", Cn("a"), t) : t \in NotationTerms1 }

NotationOptions ==
    { [DefaultOptions EXCEPT !.id = (IF n THEN 2 ELSE 0) + (IF u THEN 1 ELSE 0),
                             !.notation = n, !.unicode = u, !.max_steps = ManySteps] :
          n \in BOOLEAN, u \in BOOLEAN }

InitNotation ==
    /\ \E o \in NotationOptions : pretty_fn(o)
    /\ m_depth = 0 /\ m_num_steps = 0
    /\ inp \in [e : NotationTerms,
                st : {counters(d, s) : d \in {0, DefaultOptions.max_depth + 1}, s \in {0}}]
    /\ out = <<>>
    /\ pc = "ready"

RenderNotation ==
    /\ pc = "ready"
    /\ out' = Append(out, [notation |-> m_notation, unicode |-> m_unicode,
                           r |-> pp(inp.e, inp.st)])
    /\ pc' = "done"
    /\ UNCHANGED <<optvars, ctrvars, purvars, inp>>

SetNotationOptions(o) ==
    /\ pc = "done"
    /\ Len(out) < MaxRenders
    /\ set_options(o)
    /\ pc' = "ready"
    /\ UNCHANGED <<ctrvars, purvars, inp, out>>

NextNotation == RenderNotation \/ \E o \in NotationOptions : SetNotationOptions(o)
SpecNotation == InitNotation /\ [][NextNotation]_vars

\* the counters pp hands to what it calls, whether pp entered with st is
\* within its limits, and the result pp returns for what it called
entered(st) == advanced(st)
within_limits(st) == ~(st.depth > m_max_depth \/ st.steps > m_max_steps)
returned(r, st) == [r EXCEPT !.st = [r.st EXCEPT !.depth = st.depth]]

\* the tokens of the transitions ts[i..], the tokens a list of entries can
\* print, and whether a format shows any token of a set
RECURSIVE transition_tokens(_, _)
transition_tokens(ts, i) ==
    IF i > Len(ts) THEN {} ELSE {ts[i].token} \cup transition_tokens(ts, i + 1)
RECURSIVE entry_tokens(_, _)
entry_tokens(es, i) ==
    IF i > Len(es) THEN {}
    ELSE (IF es[i].is_numeral THEN {es[i].num} ELSE transition_tokens(es[i].transitions, 1))
         \cup entry_tokens(es, i + 1)
has_token(fmt, tokens) == \E i \in 1..Len(fmt) : fmt[i] \in tokens

\* the entry is tried in the current character set, its pattern matches e,
\* and pp_notation(entry, args) returns a result
admitted(entry) == m_unicode \/ entry.safe_ascii
renders(entry, e, st) ==
    LET m == match(entry.expr, e, empty_args(get_num_parameters(entry)))
    IN  admitted(entry) /\ m.ok /\ IsSome(pp_notation_entry(entry, m.args, st).res)

\* the rendering made last
last_render == out[Len(out)].r

\* C5: a term that is not a bound variable, rendered within the limits: when
\* an entry declared for its head matches it and renders, pp returns the
\* notation's rendering (the tokens of an entry, and not what the generic
\* rendering prints); when use-notation is false pp returns the generic
\* rendering and no token of any notation is printed, also not in subterms.
C5_NotationFirst ==
    (pc = "done" /\ within_limits(inp.st)) =>
        LET e == inp.e
            st1 == entered(inp.st)
            es == get_notation_entries(head_index(e))
            attempt == pp_notation(e, st1)
        IN  /\ (m_notation /\ ~is_var(e) /\ \E i \in 1..Len(es) : renders(es[i], e, st1))
                   => /\ IsSome(attempt.res)
                      /\ last_render = returned(Get(attempt.res), inp.st)
                      /\ last_render.fmt # pp_generic(e, st1).fmt
                      /\ has_token(last_render.fmt, entry_tokens(es, 1))
            /\ ~m_notation
                   => /\ last_render = returned(pp_generic(e, st1), inp.st)
                      /\ ~has_token(last_render.fmt, entry_tokens(env_notations, 1))

\* add a b was rendered with use-notation on and then off: a + b, add a b
C5_Witness ==
    /\ Len(out) = 2
    /\ inp.e = App2("add", Cn("a"), Cn("b"))
    /\ out[1].notation /\ ~out[2].notation
    /\ out[1].r.fmt = <<Nm("a"), Nm("+"), Nm("b")>>
    /\ out[2].r.fmt = <<Nm("add"), Nm("a"), Nm("b")>>

\* the match environments of n slots, each slot empty or holding a
RECURSIVE Buffers(_)
Buffers(n) ==
    IF n = 0 THEN {<<>>}
    ELSE { Append(b, x) : b \in Buffers(n - 1), x \in {None, Some(Cn("a"))} }

all_filled(args) == \A k \in 1..Len(args) : IsSome(args[k])
supported(entry) ==
    \A k \in 1..Len(entry.transitions) : entry.transitions[k].kind \in {"Skip", "Expr"}
RECURSIVE count_exprs(_, _)
count_exprs(ts, i) ==
    IF i > Len(ts) THEN 0
    ELSE (IF ts[i].kind = "Expr" THEN 1 ELSE 0) + count_exprs(ts, i + 1)

\* pp_notation(entry, args) on a buffer of get_num_parameters(entry) slots
\* returns a result exactly when every action is Skip or Expr and every slot
\* is filled; the slots are then as many as the Expr transitions, plus the
\* leading operand of an entry that is not a nud
all_or_nothing(entry, args, st) ==
    LET r == pp_notation_entry(entry, args, st)
    IN  IF entry.is_numeral THEN IsSome(r.res)
        ELSE /\ IsSome(r.res) <=> (supported(entry) /\ all_filled(args))
             /\ IsSome(r.res) =>
                    /\ Len(args) = count_exprs(entry.transitions, 1)
                                       + (IF entry.is_nud THEN 0 ELSE 1)
                    /\ Len(Get(r.res).fmt) >= Len(entry.transitions) + Len(args)

\* the first entry of es[i..] that renders e, 0 if none does
RECURSIVE first_rendering(_, _, _, _)
first_rendering(es, i, e, st) ==
    IF i > Len(es) THEN 0
    ELSE IF renders(es[i], e, st) THEN i
    ELSE first_rendering(es, i + 1, e, st)

\* C8: a notation attempt is all or nothing, for every entry of the head of
\* the term rendered, on the environment match leaves and on every buffer
\* of the entry's size; pp returns what the first entry that renders
\* prints, and the generic rendering when no entry does.
C8_AllOrNothing ==
    (pc = "done" /\ m_notation /\ within_limits(inp.st) /\ ~is_var(inp.e)) =>
        LET e == inp.e
            st1 == entered(inp.st)
            es == get_notation_entries(head_index(e))
            attempt == pp_notation(e, st1)
            first == first_rendering(es, 1, e, st1)
        IN  /\ \A i \in 1..Len(es) :
                  LET n == get_num_parameters(es[i])
                      m == match(es[i].expr, e, empty_args(n))
                  IN  /\ m.ok => all_or_nothing(es[i], m.args, st1)
                      /\ \A args \in Buffers(n) : all_or_nothing(es[i], args, st1)
            /\ (first = 0)
                   => /\ attempt.res = None
                      /\ last_render = returned(pp_generic(e, attempt.st), inp.st)
            /\ (first # 0)
                   => LET m == match(es[first].expr, e,
                                     empty_args(get_num_parameters(es[first])))
                      IN  last_render.fmt
                              = Get(pp_notation_entry(es[first], m.args, st1).res).fmt

\* sub a a was rendered: the entry sub #0 #0 matched it, rendered its
\* operand and returned nothing for want of the leading operand, and the
\* next entry printed a - a, one step later than it prints a - b
C8_Witness ==
    /\ pc = "done" /\ m_notation
    /\ inp.e = App2("sub", Cn("a"), Cn("a")) /\ inp.st = counters(0, 0)
    /\ last_render.fmt = <<Nm("a"), Nm("-"), Nm("a")>>
    /\ last_render.st.steps = 4

(***************************************************************************)
(* SpecCoercion: pretty_fn::pp_child on the applications of the coercions  *)
(* of the environment to one argument and more, up to the arity of their   *)
(* types, with coercions shown and hidden.                                 *)
(***************************************************************************)
RECURSIVE AppsOf(_, _)
AppsOf(h, k) ==
    IF k = 0 THEN {h} ELSE { mk_app(g, x) : g \in AppsOf(h, k - 1), x \in NotationAtoms }

RECURSIVE arity(_)
arity(t) == IF is_pi(t) THEN 1 + arity(binding_body(t)) ELSE 0

CoercionTerms ==
    UNION { UNION { AppsOf(mk_constant(f, <<>>), k) : k \in 1..arity(env_types[f]) } :
                f \in DOMAIN env_coercions }

CoercionOptions ==
    { [DefaultOptions EXCEPT !.coercions = c, !.implicit = i, !.notation = n,
                             !.max_steps = ManySteps] :
          c \in BOOLEAN, i \in BOOLEAN, n \in BOOLEAN }

InitCoercion ==
    /\ \E o \in CoercionOptions : pretty_fn(o)
    /\ m_depth = 0 /\ m_num_steps = 0
    /\ inp \in [e : CoercionTerms, bp : {0, max_bp},
                st : {counters(d, s) : d \in {0, 1}, s \in {0}}]
    /\ out = <<>>
    /\ pc = "ready"

RenderChild ==
    /\ pc = "ready"
    /\ out' = pp_child(inp.e, inp.bp, inp.st)
    /\ pc' = "done"
    /\ UNCHANGED <<optvars, ctrvars, purvars, inp>>

NextCoercion == RenderChild
SpecCoercion == InitCoercion /\ [][NextCoercion]_vars

\* the arguments of the application rendered, and the number of arguments
\* its coercion takes before the coerced one
coercion_args == get_app_args(inp.e)
cutoff == Get(is_coercion(get_app_fn(inp.e)))
final_arg == coercion_args[Len(coercion_args)]
shows(fmt, n) == \E i \in 1..Len(fmt) : fmt[i] = n

\* C6 as stated: with the cutoff equal to the number of arguments, hiding
\* coercions renders the final argument alone and showing them renders
\* the full application.
C6_FullCountIsFinalArg ==
    (pc = "done" /\ cutoff = Len(coercion_args) /\ ~is_implicit(app_fn(inp.e))) =>
        /\ ~m_coercion => out = pp_child(final_arg, inp.bp, inp.st)
        /\ m_coercion => out = pp_child_core(inp.e, inp.bp, inp.st)

\* C6, amended: with coercions hidden, the final argument alone is rendered
\* when the cutoff is the number of arguments less one; with the cutoff at
\* the number of arguments or above, the full application is rendered, as
\* it is whenever coercions are shown; with a smaller cutoff the
\* application is rendered without the coercion and its first cutoff
\* arguments.  Before all that, an application whose function takes an
\* implicit argument is rendered as that function.
C6_CoercionCutoff ==
    (pc = "done") =>
        LET e == inp.e
            n == Len(coercion_args)
            name == const_name(get_app_fn(e))
        IN  IF is_implicit(app_fn(e)) THEN out = pp_child(app_fn(e), inp.bp, inp.st)
            ELSE IF m_coercion \/ cutoff >= n
            THEN /\ out = pp_child_core(e, inp.bp, inp.st)
                 /\ (~m_notation /\ inp.st.depth = 0) => shows(out.fmt, name)
            ELSE IF cutoff = n - 1
            THEN /\ out = pp_child(final_arg, inp.bp, inp.st)
                 /\ ~shows(out.fmt, name)
            ELSE /\ out = paren_if_below(pp_coercion_fn(e, n - cutoff, inp.st), inp.bp)
                 /\ ~shows(out.fmt, name)
                 /\ Len(out.fmt) >= n - cutoff

\* coe2 a b, whose coercion takes two arguments before the coerced one, was
\* rendered in full with coercions hidden
C6_Witness ==
    /\ pc = "done" /\ ~m_coercion /\ ~m_implict
    /\ inp.e = App2("coe2", Cn("a"), Cn("b")) /\ inp.st.depth = 0
    /\ cutoff = Len(coercion_args)
    /\ out.fmt \in {<<Nm("coe2"), Nm("a"), Nm("b")>>,
                    <<Nm("("), Nm("coe2"), Nm("a"), Nm("b"), Nm(")")>>}

(***************************************************************************)
(* SpecLet: pretty_fn::pp on chains of lets.  The chain of n lets binds x  *)
(* to the values 1..n in turn; its innermost body is the tuple of the      *)
(* values of the set S, so that the value of binding i occurs in the body  *)
(* of binding i exactly when i is in S.                                    *)
(***************************************************************************)
MaxLets == 3

RECURSIVE SelectedValues(_, _)
SelectedValues(n, S) ==
    IF n = 0 THEN <<>>
    ELSE IF n \in S THEN Append(SelectedValues(n - 1, S), LetValue(n))
    ELSE SelectedValues(n - 1, S)

RECURSIVE LetsOver(_, _, _)
LetsOver(i, n, S) ==
    IF i > n THEN mk_macro("tuple", SelectedValues(n, S))
    ELSE mk_let(Nm("x"), LetValue(i), LetsOver(i + 1, n, S))

LetOptions ==
    { [DefaultOptions EXCEPT !.unicode = u, !.notation = n, !.coercions = c,
                             !.max_steps = ManySteps] :
          u \in BOOLEAN, n \in BOOLEAN, c \in BOOLEAN }

InitLet ==
    /\ \E o \in LetOptions : pretty_fn(o)
    /\ m_depth = 0 /\ m_num_steps = 0
    /\ \E n \in 1..MaxLets : \E S \in SUBSET (1..n) :
          inp \in [n : {n}, S : {S}, e : {LetsOver(1, n, S)},
                   st : {counters(d, s) : d \in {0, 1}, s \in {0}}]
    /\ out = <<>>
    /\ pc = "ready"

RenderLet ==
    /\ pc = "ready"
    /\ out' = pp(inp.e, inp.st)
    /\ pc' = "done"
    /\ UNCHANGED <<optvars, ctrvars, purvars, inp>>

NextLet == RenderLet
SpecLet == InitLet /\ [][NextLet]_vars

\* the names a format binds with := before its first `in'
RECURSIVE outer_bindings(_, _)
outer_bindings(fmt, i) ==
    IF i > Len(fmt) \/ <<fmt[i]>> = g_in_fmt THEN <<>>
    ELSE IF i < Len(fmt) /\ <<fmt[i + 1]>> = g_assign_fmt
    THEN <<fmt[i]>> \o outer_bindings(fmt, i + 1)
    ELSE outer_bindings(fmt, i + 1)

\* the names pick_unused_name gives k bindings of x in turn: x, x_1, x_2, ...
RECURSIVE fresh_names(_)
fresh_names(k) ==
    IF k = 0 THEN <<>>
    ELSE Append(fresh_names(k - 1), IF k = 1 THEN Nm("x") ELSE append_after(Nm("x"), k - 1))

\* the number of bindings before the first whose value does not reoccur
RECURSIVE reoccurring_prefix(_, _, _)
reoccurring_prefix(i, n, S) ==
    IF i > n \/ i \notin S THEN 0 ELSE 1 + reoccurring_prefix(i + 1, n, S)

\* C7 as stated: the loop stops at the first binding whose value does not
\* reoccur, so the bindings displayed are those before it (exactly one
\* when the second is the first not to reoccur).
C7_StopsAtFirstNotReoccurring ==
    (pc = "done") =>
        Len(outer_bindings(out.fmt, 1)) = reoccurring_prefix(1, inp.n, inp.S)

\* C7, amended: a binding whose value does not reoccur in its body is
\* dropped and the loop goes on with the body; it stops only at a term that
\* is not a let.  The bindings displayed are all those whose value
\* reoccurs, in order, and the body displayed is the innermost one; with
\* none displayed, the innermost body is rendered by itself.
C7_ReoccurringBindingsShown ==
    (pc = "done") =>
        LET shown == Cardinality(inp.S)
            body == mk_macro("tuple", SelectedValues(inp.n, inp.S))
            peeled == pp_let_peel(inp.e, <<>>)
        IN  /\ outer_bindings(out.fmt, 1) = fresh_names(shown)
            /\ Len(peeled[2]) = shown
            /\ ~is_let(peeled[1])
            /\ (shown = 0) => (peeled[1] = body /\ out.fmt = pp(body, inp.st).fmt)
            /\ (shown > 0) => (<<out.fmt[1]>> = g_let_fmt /\ shows(out.fmt, g_in_fmt[1]))

\* of three bindings the second does not reoccur and the third does: the
\* first and the third are displayed
C7_Witness ==
    /\ pc = "done"
    /\ inp.n = 3 /\ inp.S = {1, 3}
    /\ outer_bindings(out.fmt, 1) = <<Nm("x"), append_after(Nm("x"), 1)>>

(***************************************************************************)
(* SpecBinders: pretty_fn::pp on lambdas and Pis over a list of binders,   *)
(* binder k having the k-th name of BinderNames, a type and a binder       *)
(* information.  The Pis have no default binder, which pp_pi would print   *)
(* as an arrow.                                                            *)
(***************************************************************************)
MaxBinders == 3

BinderNames == <<"x", "y", "z", "w">>
BinderTypes == {TyA, TyB}
LambdaInfos == {"default", "implicit", "strict_implicit"}
PiInfos == {"implicit", "strict_implicit"}

RECURSIVE BinderLists(_, _)
BinderLists(n, infos) ==
    IF n = 0 THEN {<<>>}
    ELSE { Append(bs, [type |-> t, bi |-> bi]) :
               bs \in BinderLists(n - 1, infos), t \in BinderTypes, bi \in infos }

RECURSIVE Binding(_, _, _)
Binding(family, bs, i) ==
    IF i > Len(bs) THEN (IF family = "lambda" THEN Cn("a") ELSE TyA)
    ELSE IF family = "lambda"
    THEN mk_lambda(Nm(BinderNames[i]), bs[i].type, Binding(family, bs, i + 1), bs[i].bi)
    ELSE mk_pi(Nm(BinderNames[i]), bs[i].type, Binding(family, bs, i + 1), bs[i].bi)

BinderOptions ==
    { [DefaultOptions EXCEPT !.unicode = u, !.max_steps = ManySteps] : u \in BOOLEAN }

InitBinders ==
    /\ \E o \in BinderOptions : pretty_fn(o)
    /\ m_depth = 0 /\ m_num_steps = 0
    /\ \E family \in {"lambda", "pi"}, n \in 1..MaxBinders :
          \E bs \in BinderLists(n, IF family = "lambda" THEN LambdaInfos ELSE PiInfos) :
              inp = [family |-> family, bs |-> bs, e |-> Binding(family, bs, 1),
                     st |-> counters(0, 0)]
    /\ out = <<>>
    /\ pc = "ready"

RenderBinding ==
    /\ pc = "ready"
    /\ out' = pp(inp.e, inp.st)
    /\ pc' = "done"
    /\ UNCHANGED <<optvars, ctrvars, purvars, inp>>

NextBinders == RenderBinding
SpecBinders == InitBinders /\ [][NextBinders]_vars

\* binders k - 1 and k of bs do not share a block: k is the first binder,
\* or past the last, or the two differ in type or in binder information
block_boundary(bs, k) ==
    \/ k = 1 \/ k = Len(bs) + 1
    \/ bs[k].type # bs[k - 1].type
    \/ bs[k].bi # bs[k - 1].bi

\* what the maximal runs of bs[k..] print: a bracket opens before the first
\* binder of a run, every name is printed once, and the type and the
\* closing bracket follow the last binder of the run
RECURSIVE run_blocks(_, _)
run_blocks(bs, k) ==
    IF k > Len(bs) THEN <<>>
    ELSE (IF block_boundary(bs, k) THEN binder_open(bs[k].bi) ELSE <<>>)
         \o tk(BinderNames[k])
         \o (IF block_boundary(bs, k + 1)
             THEN colon \o format(const_name(bs[k].type)) \o binder_close(bs[k].bi)
             ELSE <<>>)
         \o run_blocks(bs, k + 1)

binding_keyword ==
    IF inp.family = "lambda" THEN (IF m_unicode THEN g_lambda_n_fmt ELSE g_lambda_fmt)
    ELSE (IF m_unicode THEN g_pi_n_fmt ELSE g_pi_fmt)

\* C9: a lambda or Pi is printed as its keyword, the blocks of the maximal
\* runs of consecutive binders of equal type and equal binder information
\* (adjacent binders share a block exactly when both are equal), each name
\* once and in order, a comma and the body.
C9_BlocksAreMaximalRuns ==
    (pc = "done") =>
        out.fmt = binding_keyword \o run_blocks(inp.bs, 1) \o comma
                      \o format(IF inp.family = "lambda" THEN Nm("a") ELSE Nm("A"))

\* x and y of type A share a block, and z, implicit, of type A has its own
C9_Witness ==
    /\ pc = "done" /\ m_unicode
    /\ inp.family = "lambda"
    /\ inp.bs = <<[type |-> TyA, bi |-> "default"], [type |-> TyA, bi |-> "default"],
                  [type |-> TyA, bi |-> "implicit"]>>
    /\ out.fmt = g_lambda_n_fmt \o tk("(") \o tk("x") \o tk("y") \o colon \o tk("A") \o tk(")")
                     \o tk("{") \o tk("z") \o colon \o tk("A") \o tk("}") \o comma \o tk("a")

(***************************************************************************)
(* SpecMatch: pretty_fn::match on a pattern constant and a term constant,  *)
(* each with a list of universe levels, with universes shown and hidden.   *)
(***************************************************************************)
MaxLevels == 2

MatchLevels == { <<"zero">>, mk_succ(<<"zero">>), <<"lplaceholder">>, mk_succ(<<"lplaceholder">>) }

RECURSIVE LevelLists(_)
LevelLists(n) ==
    IF n = 0 THEN {<<>>}
    ELSE LevelLists(n - 1)
             \cup { Append(ls, l) : ls \in LevelLists(n - 1), l \in MatchLevels }

MatchOptions == { [DefaultOptions EXCEPT !.universes = u] : u \in BOOLEAN }

InitMatch ==
    /\ \E o \in MatchOptions : pretty_fn(o)
    /\ m_depth = 0 /\ m_num_steps = 0
    /\ inp \in [p : { mk_constant(Nm("c"), ls) : ls \in LevelLists(MaxLevels) },
                e : { mk_constant(n, ls) : n \in {Nm("c"), Nm("d")},
                                           ls \in LevelLists(MaxLevels) }]
    /\ out = <<>>
    /\ pc = "ready"

Match ==
    /\ pc = "ready"
    /\ out' = match(inp.p, inp.e, <<>>)
    /\ pc' = "done"
    /\ UNCHANGED <<optvars, ctrvars, purvars, inp>>

NextMatch == Match
SpecMatch == InitMatch /\ [][NextMatch]_vars

\* C10: a pattern constant matches a term constant only if the term has at
\* least as many universe levels as the pattern and every level of the
\* pattern matches the term's level at its position.
C10_ConstantLevelsMatched ==
    (pc = "done" /\ out.ok) =>
        LET p_ls == const_levels(inp.p)
            e_ls == const_levels(inp.e)
        IN  /\ Len(e_ls) >= Len(p_ls)
            /\ \A k \in 1..Len(p_ls) : match_level(p_ls[k], e_ls[k])

(***************************************************************************)
(* SpecSlots: pretty_fn::pp on an infix notation (add with the token +,    *)
(* mul with the token of precedence 70) whose two operands are a core      *)
(* term, bare or wrapped: in an application of the coercion coe, or, for   *)
(* the core ih a b, whose type takes an implicit argument, in an           *)
(* application to one more argument.                                       *)
(***************************************************************************)
SlotCores ==
    { Cn("a"), App2("add", Cn("a"), Cn("b")), App2("mul", Cn("a"), Cn("b")),
      App1("neg", Cn("a")), App2("ih", Cn("a"), Cn("b")) }
SlotWraps(core) ==
    {"bare", "coercion"} \cup (IF get_app_fn(core) = Cn("ih") THEN {"implicit"} ELSE {})
wrapped(core, wrap) ==
    CASE wrap = "bare" -> core
      [] wrap = "coercion" -> mk_app(Cn("coe"), core)
      [] wrap = "implicit" -> mk_app(core, Cn("a"))
Operands == { [core |-> c, wrap |-> w] : c \in SlotCores, w \in {"bare", "coercion", "implicit"} }
SlotOperands == { o \in Operands : o.wrap \in SlotWraps(o.core) }

SlotOptions ==
    { [DefaultOptions EXCEPT !.coercions = c, !.unicode = u, !.max_steps = ManySteps] :
          c \in BOOLEAN, u \in BOOLEAN }

InitSlots ==
    /\ \E o \in SlotOptions : pretty_fn(o)
    /\ m_depth = 0 /\ m_num_steps = 0
    /\ \E op \in {"add", "mul"}, l \in SlotOperands, r \in SlotOperands :
          inp = [op |-> op, l |-> l, r |-> r,
                 e |-> App2(op, wrapped(l.core, l.wrap), wrapped(r.core, r.wrap)),
                 st |-> counters(0, 0)]
    /\ out = <<>>
    /\ pc = "ready"

RenderSlots ==
    /\ pc = "ready"
    /\ out' = pp(inp.e, inp.st)
    /\ pc' = "done"
    /\ UNCHANGED <<optvars, ctrvars, purvars, inp>>

NextSlots == RenderSlots
SpecSlots == InitSlots /\ [][NextSlots]_vars

\* the operand o as a slot of thresholds lbp and rbp prints it by the rule
\* of pp_notation_child: the core that is left after peeling, in
\* parentheses exactly when its right binding power is below lbp or its
\* left binding power is at or below rbp
peeled(o) ==
    IF o.wrap = "bare" \/ (o.wrap = "coercion" /\ m_coercion)
    THEN wrapped(o.core, o.wrap) ELSE o.core
slot_fmt(o, lbp, rbp) ==
    paren_if_needed(pp(peeled(o), entered(inp.st)), lbp, rbp).fmt
op_token == IF inp.op = "add" THEN Nm("+") ELSE Nm("*")

\* C11: both operands of the notation are printed by the rule of the slot,
\* whether bare or reached by peeling: the leading operand with the
\* token's precedence as left threshold and 0 as right threshold, the
\* other with 0 as left threshold and the right binding power of the Expr
\* action as right threshold.
C11_SlotParentheses ==
    (pc = "done") =>
        out.fmt = slot_fmt(inp.l, get_some_precedence(op_token), 0)
                      \o format(op_token)
                      \o slot_fmt(inp.r, 0, get_some_precedence(op_token))

(***************************************************************************)
(* SpecShapes: pp on one term of each shape the binder-like renderers take: *)
(* a lambda, a Pi printed with binders, a Pi printed as an arrow, a let     *)
(* that displays a binding, a let that displays none (no value occurs in    *)
(* its body), a have and a show.  inp.body is the body of the let.          *)
(***************************************************************************)
mk_have(n, type, proof, body, bi) ==
    mk_app(mk_annotation("have", mk_lambda(n, type, body, bi)), proof)
mk_show(type, proof) ==
    mk_annotation("show", mk_app(mk_lambda(Nm("H"), type, mk_var(0), "default"), proof))

LetBodies ==
    { Cn("a"), App2("add", Cn("a"), Cn("b")), Arrow(TyA, TyB),
      mk_lambda(Nm("x"), TyA, Cn("a"), "default") }

ShapeTerms ==
    { [shape |-> "lambda", body |-> b, e |-> mk_lambda(Nm("x"), TyA, b, bi)] :
          b \in {Cn("a"), mk_var(0), App2("add", Cn("a"), Cn("b"))},
          bi \in {"default", "implicit"} }
    \cup { [shape |-> "pi", body |-> b, e |-> mk_pi(Nm("x"), TyA, b, "implicit")] :
               b \in {TyB, Arrow(TyA, TyB)} }
    \cup { [shape |-> "pi", body |-> b, e |-> mk_pi(Nm("x"), TyA, b, "default")] :
               b \in {App1("P", mk_var(0))} }
    \cup { [shape |-> "arrow", body |-> r, e |-> Arrow(d, r)] :
               d \in {TyA, Arrow(TyA, TyB)}, r \in {TyB, Arrow(TyA, TyB)} }
    \cup { [shape |-> "let", body |-> LetsOver(n + 1, n, S), e |-> LetsOver(1, n, S)] :
               n \in 1..2, S \in {{1}, {1, 2}} }
    \cup { [shape |-> "let0", body |-> b, e |-> mk_let(Nm("x"), LetValue(1), b)] :
               b \in LetBodies }
    \cup { [shape |-> "let0", body |-> b,
            e |-> mk_let(Nm("x"), LetValue(1), mk_let(Nm("y"), LetValue(2), b))] :
               b \in LetBodies }
    \cup { [shape |-> "have", body |-> b, e |-> mk_have(Nm("H"), TyA, Cn("h"), b, bi)] :
               b \in {Cn("a"), App2("add", Cn("a"), Cn("b"))},
               bi \in {"default", "contextual"} }
    \cup { [shape |-> "show", body |-> p, e |-> mk_show(t, p)] :
               t \in {TyA, Arrow(TyA, TyB)}, p \in {Cn("h"), App1("neg", Cn("a"))} }

ShapeOptions ==
    { [DefaultOptions EXCEPT !.unicode = u, !.notation = n, !.max_steps = ManySteps] :
          u \in BOOLEAN, n \in BOOLEAN }

InitShapes ==
    /\ \E o \in ShapeOptions : pretty_fn(o)
    /\ m_depth = 0 /\ m_num_steps = 0
    /\ \E t \in ShapeTerms :
          inp = [shape |-> t.shape, body |-> t.body, e |-> t.e,
                 st |-> counters(0, 0)]
    /\ out = <<>>
    /\ pc = "ready"

RenderShape ==
    /\ pc = "ready"
    /\ out' = pp(inp.e, inp.st)
    /\ pc' = "done"
    /\ UNCHANGED <<optvars, ctrvars, purvars, inp>>

NextShapes == RenderShape
SpecShapes == InitShapes /\ [][NextShapes]_vars

outer_bp(r, bp) == r.lbp = bp /\ r.rbp = bp
let_body_result == pp(inp.body, entered(inp.st))

\* C12 as stated: every lambda, Pi, let, have and show is returned with the
\* outer binding power 0, the arrow and the let without a displayed
\* binding included.
C12_AlwaysZero == (pc = "done") => outer_bp(out, 0)

\* C12: a lambda, a Pi printed with binders, a let that displays a binding,
\* a have and a show are returned with the outer binding power 0; a Pi
\* printed as an arrow is returned with the arrow's precedence less one; a
\* let that displays no binding is returned with the binding powers of its
\* body.
C12_OuterBindingPower ==
    (pc = "done") =>
        /\ inp.shape \in {"lambda", "pi", "let", "have", "show"} => outer_bp(out, 0)
        /\ inp.shape = "arrow" => outer_bp(out, get_arrow_prec - 1)
        /\ inp.shape = "let0" =>
               /\ out.lbp = let_body_result.lbp
               /\ out.rbp = let_body_result.rbp
               /\ out.fmt = let_body_result.fmt

\* a let without a displayed binding is returned with the binding power of
\* the notation its body prints
C12_Witness ==
    /\ pc = "done"
    /\ inp.shape = "let0"
    /\ inp.body = App2("add", Cn("a"), Cn("b"))
    /\ m_notation
    /\ outer_bp(out, 65)

(***************************************************************************)
(* SpecChecker: the questions the renderer puts to the type checker, on    *)
(* terms the checker answers and on terms it fails on.  inp.kind says what *)
(* the term is: a function whose first binder is implicit, one whose first *)
(* binder is explicit ("late" when a later binder is implicit), a typed    *)
(* term that is no function ("not_pi": ensure_pi throws), a term the       *)
(* checker cannot type ("untyped": infer throws) and a term that is not    *)
(* closed ("open").  out is the question and its answer.                   *)
(***************************************************************************)
CheckerTerms ==
    { [kind |-> "implicit", f |-> f] :
          f \in {Cn("g"), Cn("iadd"), App2("ih", Cn("a"), Cn("b"))} }
    \cup { [kind |-> "explicit", f |-> f] : f \in {Cn("f"), Cn("neg"), App1("f", Cn("a"))} }
    \cup { [kind |-> "late", f |-> f] : f \in {Cn("ih"), App1("ih", Cn("a"))} }
    \cup { [kind |-> "not_pi", f |-> f] :
               f \in {Cn("a"), Cn("P"), Cn("h"), App2("f", Cn("a"), Cn("b")),
                      App1("neg", Cn("a"))} }
    \cup { [kind |-> "untyped", f |-> f] :
               f \in {Cn("u"), App1("u", Cn("a")), App1("a", Cn("b")),
                      App2("neg", Cn("a"), Cn("b"))} }
    \cup { [kind |-> "open", f |-> f] :
               f \in {mk_var(0), App1("g", mk_var(0)), App1("u", mk_var(1))} }

CheckerOptions ==
    { [DefaultOptions EXCEPT !.implicit = i, !.notation = n, !.max_steps = ManySteps] :
          i \in BOOLEAN, n \in BOOLEAN }

\* the pattern of a notation for the application e: its last argument is
\* the parameter
pattern_of(e) == IF is_app(e) THEN mk_app(app_fn(e), mk_var(0)) ELSE e

InitChecker ==
    /\ \E o \in CheckerOptions : pretty_fn(o)
    /\ m_depth = 0 /\ m_num_steps = 0
    /\ \E t \in CheckerTerms :
          inp = [kind |-> t.kind, f |-> t.f, st |-> counters(0, 0)]
    /\ out = <<>>
    /\ pc = "ready"

AskIsImplicit ==
    /\ pc = "ready"
    /\ out' = [q |-> "is_implicit", r |-> is_implicit(inp.f)]
    /\ pc' = "done"
    /\ UNCHANGED <<optvars, ctrvars, purvars, inp>>

AskIsProp ==
    /\ pc = "ready"
    /\ out' = [q |-> "is_prop", r |-> is_prop(inp.f)]
    /\ pc' = "done"
    /\ UNCHANGED <<optvars, ctrvars, purvars, inp>>

AskHasImplicitArgs ==
    /\ pc = "ready"
    /\ out' = [q |-> "has_implicit_args", r |-> has_implicit_args(inp.f)]
    /\ pc' = "done"
    /\ UNCHANGED <<optvars, ctrvars, purvars, inp>>

AskMatch ==
    /\ pc = "ready"
    /\ out' = [q |-> "match", r |-> match(pattern_of(inp.f), inp.f, empty_args(1))]
    /\ pc' = "done"
    /\ UNCHANGED <<optvars, ctrvars, purvars, inp>>

RenderChecked ==
    /\ pc = "ready"
    /\ out' = [q |-> "pp", r |-> pp(inp.f, inp.st)]
    /\ pc' = "done"
    /\ UNCHANGED <<optvars, ctrvars, purvars, inp>>

NextChecker ==
    \/ AskIsImplicit
    \/ AskIsProp
    \/ AskHasImplicitArgs
    \/ AskMatch
    \/ RenderChecked
SpecChecker == InitChecker /\ [][NextChecker]_vars

checker_fails == inp.kind \in {"untyped", "open"}

\* C14: is_implicit answers false when implicit arguments are shown, when
\* the term is not closed and when infer or ensure_pi fails, and true only
\* for a closed function whose first binder is implicit; is_prop and
\* has_implicit_args answer false, and implicit-aware matching answers no
\* match, when the checker fails; the renderer returns a format on every
\* such term.
C14_CheckerFailuresAreNo ==
    (pc = "done") =>
        /\ out.q = "is_implicit" =>
               /\ out.r \in BOOLEAN
               /\ m_implict => ~out.r
               /\ inp.kind \in {"open", "untyped", "not_pi"} => ~out.r
               /\ out.r <=> (~m_implict /\ inp.kind = "implicit")
        /\ out.q = "is_prop" =>
               /\ out.r \in BOOLEAN
               /\ inp.kind = "untyped" \/ inp.f = mk_var(0) => ~out.r
               /\ inp.f = Cn("P") => out.r
        /\ out.q = "has_implicit_args" =>
               /\ out.r \in BOOLEAN
               /\ checker_fails => ~out.r
               /\ out.r <=> inp.kind \in {"implicit", "late"}
        /\ out.q = "match" =>
               /\ out.r.ok \in BOOLEAN
               /\ (is_app(inp.f) /\ inp.kind = "untyped") => ~out.r.ok
               /\ (is_app(inp.f) /\ inp.kind \in {"implicit", "explicit", "late", "not_pi"})
                      => (out.r.ok /\ out.r.args = <<Some(app_arg(inp.f))>>)
        /\ out.q = "pp" => (Len(out.r.fmt) >= 1 /\ out.r.st.depth = 0)

\* is_implicit was asked about an application whose head the checker cannot
\* type, while implicit arguments are hidden, and answered false
C14_Witness ==
    /\ pc = "done"
    /\ out.q = "is_implicit"
    /\ ~m_implict
    /\ inp.f = App1("u", Cn("a"))
    /\ closed(inp.f)
    /\ infer(inp.f) = Fail
    /\ out.r = FALSE

(***************************************************************************)
(* Spec: one renderer instance, as mk_pretty_formatter_factory builds it   *)
(* and its formatter uses it.  SetOptions is pretty_fn::set_options, Call  *)
(* is pretty_fn::operator().  The formatter the factory returns runs       *)
(* fn.set_options(new_o) and then fn(e): FormatterSetOptions is its first  *)
(* statement and FormatterCall its second, pc = "formatter" being the      *)
(* position between the two, where nothing else can run.                   *)
(* out records, for the call made last: its number, the tables and         *)
(* counter it found (P0), the purified term, the format and the steps.     *)
(***************************************************************************)
MaxCalls == 3

OptionSets ==
    { DefaultOptions,
      [DefaultOptions EXCEPT !.id = 1],
      [DefaultOptions EXCEPT !.id = 2, !.universes = TRUE, !.max_depth = 1, !.unicode = FALSE,
                             !.max_steps = 2, !.notation = FALSE, !.indent = 4,
                             !.implicit = TRUE, !.coercions = TRUE, !.full_names = TRUE,
                             !.private_names = TRUE, !.metavar_args = TRUE, !.beta = TRUE] }

MvA == mk_metavar(Nm("a"), TyA)
MvB == mk_metavar(Nm("b"), TyA)
Lc1 == mk_local(<<"l", <<1>>>>, Nm("x"), TyA, "default")
Lc2 == mk_local(<<"l", <<2>>>>, Nm("x"), TyA, "default")

CallTerms ==
    { MvA, mk_app(MvB, MvA), mk_app(Lc2, Lc1), Lc1,
      mk_app(mk_app(Cn("add"), MvB), mk_app(mk_app(Cn("f"), Lc2), Cn("a"))),
      mk_app(mk_lambda(Nm("x"), TyA, mk_app(Cn("neg"), mk_var(0)), "default"), Lc2) }

Init ==
    /\ \E o \in OptionSets : pretty_fn(o)
    /\ inp = [e |-> Cn("a"), o |-> m_options]
    /\ out = [call |-> 0]
    /\ pc = "idle"

\* the call's effect on the instance, from what operator_call returns
CallDone(r, P) ==
    /\ SetPurifyState(r.P)
    /\ m_depth' = r.st.depth
    /\ m_num_steps' = r.st.steps
    /\ out' = [call |-> out.call + 1, P0 |-> P, e |-> r.e, fmt |-> r.fmt,
               steps |-> r.st.steps, deepest |-> r.st.deepest,
               found |-> [depth |-> m_depth, steps |-> m_num_steps]]
    /\ UNCHANGED optvars

DoCall(e) == CallDone(operator_call(e, PurifyState), PurifyState)

SetOptions(o) ==
    /\ pc = "idle"
    /\ set_options(o)
    /\ inp' = [inp EXCEPT !.o = o]
    /\ UNCHANGED <<ctrvars, purvars, out, pc>>

Call(e) ==
    /\ pc = "idle"
    /\ out.call < MaxCalls
    /\ inp' = [e |-> e, o |-> m_options]
    /\ DoCall(e)
    /\ UNCHANGED pc

FormatterSetOptions(e, new_o) ==
    /\ pc = "idle"
    /\ out.call < MaxCalls
    /\ set_options(new_o)
    /\ inp' = [e |-> e, o |-> new_o]
    /\ pc' = "formatter"
    /\ UNCHANGED <<ctrvars, purvars, out>>

FormatterCall ==
    /\ pc = "formatter"
    /\ DoCall(inp.e)
    /\ pc' = "idle"
    /\ UNCHANGED inp

Next ==
    \/ \E o \in OptionSets : SetOptions(o)
    \/ \E e \in CallTerms : Call(e)
    \/ \E e \in CallTerms, o \in OptionSets : FormatterSetOptions(e, o)
    \/ FormatterCall

Spec == Init /\ [][Next]_vars

\* the tables and the counter as the constructor leaves them
EmptyPurifyState == [mt |-> <<>>, lt |-> <<>>, used |-> {}, idx |-> 1]

\* C3 as stated: every call on the instance starts with empty purification
\* tables and the metavariable counter at 1.
C3_EachCallStartsEmpty ==
    (out.call >= 1) => (out.P0 = EmptyPurifyState)

\* C3, amended: the first call on an instance starts with empty tables and
\* the counter at 1; a later call starts with the tables and the counter
\* the calls before it left (operator() resets only the depth and the step
\* count), and every call leaves what it found, extended.
C3_CallFindsAndLeaves ==
    /\ (out.call = 1) => (out.P0 = EmptyPurifyState)
    /\ (out.call >= 1) =>
          /\ \A m \in DOMAIN out.P0.mt :
                 m \in DOMAIN m_purify_meta_table /\ m_purify_meta_table[m] = out.P0.mt[m]
          /\ \A n \in DOMAIN out.P0.lt :
                 n \in DOMAIN m_purify_local_table /\ m_purify_local_table[n] = out.P0.lt[n]
          /\ out.P0.used \subseteq m_purify_used_locals
          /\ out.P0.idx <= m_next_meta_idx
          /\ m_next_meta_idx = 1 + Cardinality(DOMAIN m_purify_meta_table)
          /\ m_purify_used_locals = {m_purify_local_table[n] : n \in DOMAIN m_purify_local_table}

C3_TablesPersist ==
    /\ []C3_CallFindsAndLeaves
    /\ [][(out'.call = out.call + 1) => (out'.P0 = PurifyState)]_vars

\* a call after the first found a metavariable and a local of earlier calls
\* in the tables, and named its first new metavariable after the counter
C3_Witness ==
    /\ out.call >= 2
    /\ out.P0.idx > 1
    /\ out.P0.used # {}
    /\ is_metavar(out.e)
    /\ mlocal_name(out.e) = append_after(m_meta_prefix, out.P0.idx)

\* the cached fields hold what the getters read from the option set o
cached_from(o) ==
    /\ m_indent = get_pp_indent(o)
    /\ m_max_depth = get_pp_max_depth(o)
    /\ m_max_steps = get_pp_max_steps(o)
    /\ m_implict = get_pp_implicit(o)
    /\ m_unicode = get_pp_unicode(o)
    /\ m_coercion = get_pp_coercions(o)
    /\ m_notation = get_pp_notation(o)
    /\ m_universes = get_pp_universes(o)
    /\ m_full_names = get_pp_full_names(o)
    /\ m_private_names = get_pp_private_names(o)
    /\ m_metavar_args = get_pp_metavar_args(o)
    /\ m_beta = get_pp_beta(o)

\* the cached fields after a step hold what the getters read from o
recomputed_from(o) ==
    /\ m_options' = o
    /\ m_indent' = get_pp_indent(o)
    /\ m_max_depth' = get_pp_max_depth(o)
    /\ m_max_steps' = get_pp_max_steps(o)
    /\ m_implict' = get_pp_implicit(o)
    /\ m_unicode' = get_pp_unicode(o)
    /\ m_coercion' = get_pp_coercions(o)
    /\ m_notation' = get_pp_notation(o)
    /\ m_universes' = get_pp_universes(o)
    /\ m_full_names' = get_pp_full_names(o)
    /\ m_private_names' = get_pp_private_names(o)
    /\ m_metavar_args' = get_pp_metavar_args(o)
    /\ m_beta' = get_pp_beta(o)

\* C15: inp.o being the option set supplied last (to the constructor, to
\* set_options or to the formatter), every cached field holds the value
\* read from it; a step that supplies the set m_options already is, by
\* identity, changes no field, and a step that supplies any other set
\* recomputes all of them from it, also when the contents of the two sets
\* are equal.
C15_CachedOptionsCurrent ==
    /\ [](is_eqp(inp.o, m_options) /\ cached_from(inp.o) /\ cached_from(m_options))
    /\ [][/\ is_eqp(inp'.o, m_options) => UNCHANGED optvars
          /\ ~is_eqp(inp'.o, m_options) => recomputed_from(inp'.o)]_vars

\* the formatter was given an option set other than the one a call was
\* made under: the call made more steps than the new limit allows, and the
\* fields are those of the new set
C15_Witness ==
    /\ pc = "formatter"
    /\ out.call >= 1
    /\ out.steps > m_max_steps + 1
    /\ inp.o.id = 2
    /\ m_options = inp.o
    /\ m_max_depth = 1 /\ m_beta /\ ~m_unicode /\ ~m_notation /\ m_indent = 4

\* C16: a call starts from depth 0 and step count 0 whatever depth and step
\* count it finds on the instance (those the constructor left
\* uninitialised, or those an earlier, possibly truncated, call left): it
\* prints what a call at depth 0 after 0 steps prints, at most max_steps + 1
\* invocations of pp return something other than the ellipsis, and the
\* depth is never above max_depth + 1 and is back at 0 when the call
\* returns.
C16_CallStartsAtZero ==
    [][(out'.call = out.call + 1) =>
           /\ out'.found = [depth |-> m_depth, steps |-> m_num_steps]
           /\ out'.fmt = pp_child(out'.e, 0, counters(0, 0)).fmt
           /\ out'.steps = pp_child(out'.e, 0, counters(0, 0)).st.steps
           /\ out'.steps <= m_max_steps + 1
           /\ out'.deepest <= m_max_depth + 1
           /\ m_depth' = 0
           /\ m_num_steps' = out'.steps]_vars

\* a call that found the step count of a truncated call, above the limit
\* of its own options, and was truncated in turn: it made max_steps + 1
\* steps, reached the depth max_depth + 1 and printed the ellipsis next to
\* what it rendered
C16_Witness ==
    /\ out.call >= 2
    /\ pc = "idle"
    /\ out.found.steps > m_max_steps
    /\ out.steps = m_max_steps + 1
    /\ out.deepest = m_max_depth + 1
    /\ m_num_steps = out.steps
    /\ Len(out.fmt) >= 2
    /\ has_ellipsis(out.fmt)

====
